---- MODULE Spec2Model ----
(***************************************************************************)
(* A model of the conversation-state engine of biographer.py (a Streamlit  *)
(* script).  The script keeps all of its state in st.session_state and in  *)
(* JSON files; every user action runs one handler, which ends in           *)
(* st.rerun(), and the rerun executes the script from the top again        *)
(* (bootstrap, load after login, login gate, transcript lookup).  An       *)
(* action of this model is therefore "handler, then one full script run".  *)
(*                                                                         *)
(* Conventions: indices into SESSIONS and into a transcript are 0-based as *)
(* in the Python source; TLA+ sequences are 1-based, so element i of a     *)
(* Python list is seq[i + 1].  Python's None and "" are both falsy and the *)
(* script only ever tests current_question_override for truthiness, so the *)
(* override is a string and "" stands for None.  Dates are day numbers.    *)
(***************************************************************************)
EXTENDS Integers, Sequences, FiniteSets, TLC

(***************************************************************************)
(* Bounds of the model (not program constants).                            *)
(***************************************************************************)
MaxSessions == 2
MaxTopics == 3
MaxFallback == 1
MaxSubmits == 2
MaxRecords == 3
MaxEdits == 1
MaxJots == 1
MaxDay == 3
MaxPrompts == 1
MaxWords == 4
MaxPhotos == 3

Min(a, b) == IF a < b THEN a ELSE b
Max(a, b) == IF a > b THEN a ELSE b

(***************************************************************************)
(* SECTION 5 / 6 of the script: the static catalog.                        *)
(***************************************************************************)
CATALOG ==
  << [id |-> 1, title |-> "Childhood", word_target |-> 800,
      questions |-> << "What is your earliest memory?",
                       "Can you describe your family home growing up?",
                       "Who were the most influential people in your early years?",
                       "What was school like for you?",
                       "Were there any favourite games or hobbies?",
                       "Is there a moment from childhood that shaped who you are?",
                       "If you could give your younger self some advice, what would it be?" >>],
     [id |-> 2, title |-> "Family & Relationships", word_target |-> 700,
      questions |-> << "How would you describe your relationship with your parents?",
                       "Are there any family traditions you remember fondly?",
                       "What was your relationship like with siblings or close relatives?",
                       "Can you share a story about a family celebration or challenge?",
                       "How did your family shape your values?" >>],
     [id |-> 3, title |-> "Education & Growing Up", word_target |-> 600,
      questions |-> << "What were your favourite subjects at school?",
                       "Did you have any memorable teachers or mentors?",
                       "How did you feel about exams and studying?",
                       "Were there any big turning points in your education?",
                       "Did you pursue further education or training?",
                       "What advice would you give about learning?" >>] >>

ALL_FALLBACK_PROMPTS ==
  << "Describe a smell or sound that brings back a strong memory.",
     "What's a small moment that had a big impact?",
     "Tell me about a place that felt like home.",
     "Who believed in you when you didn't believe in yourself?",
     "What's something you learned the hard way?",
     "Describe a meal that holds special meaning.",
     "What was a turning point in how you see yourself?",
     "Tell me about a gift that meant more than its cost.",
     "What's a risk that paid off (or didn't)?",
     "Describe a time you felt truly proud." >>

\* The catalog the model runs on: the first MaxSessions sessions, each cut by
\* the same number of questions, so that the longest session of the catalog
\* keeps MaxTopics questions and the sessions keep their differences in
\* length (every session keeps at least one question); and the first
\* MaxFallback fallback prompts.
LongestSession ==
  CHOOSE n \in {Len(CATALOG[i].questions) : i \in 1..Len(CATALOG)} :
    \A i \in 1..Len(CATALOG) : Len(CATALOG[i].questions) <= n

KeptQuestions(i) ==
  Min(Len(CATALOG[i].questions),
      Max(1, Len(CATALOG[i].questions) - (LongestSession - MaxTopics)))

SESSIONS ==
  [i \in 1..Min(Len(CATALOG), MaxSessions) |->
     [CATALOG[i] EXCEPT !.questions = SubSeq(CATALOG[i].questions, 1, KeptQuestions(i))]]

FALLBACK_PROMPTS == SubSeq(ALL_FALLBACK_PROMPTS, 1, Min(Len(ALL_FALLBACK_PROMPTS), MaxFallback))

SessionIds == {SESSIONS[i].id : i \in 1..Len(SESSIONS)}

\* The session with a given id
SessionById(session_id) ==
  SESSIONS[CHOOSE i \in 1..Len(SESSIONS) : SESSIONS[i].id = session_id]

\* Python's list[i]: a negative i counts from the end, and an i outside
\* -len..len-1 raises IndexError
PyIndexError(list, i) == i >= Len(list) \/ i < 0 - Len(list)
PyItem(list, i) == list[IF i >= 0 THEN i + 1 ELSE Len(list) + i + 1]

\* len(current_session["questions"]) for the session at 0-based index s
NumQuestions(s) == Len(PyItem(SESSIONS, s).questions)

(***************************************************************************)
(* Inputs of the environment.                                              *)
(***************************************************************************)
\* What the user types into the chat box or the edit area.
Texts == {"I remember the garden.", "Home"}
\* What the user types into the Jot Now text area.
JotTexts == {"That summer at grandma's house in 1995"}
\* The user ids of the accounts that exist in accounts/.
Users == {"3f9a1c07b2d4"}
\* What the completion endpoint answers.
LLMReply == "Tell me more about that."

NoOverride == ""
NoEdit == [active |-> FALSE, sid |-> 0, key |-> "", i |-> 0]
\* birth_year is the year of profile.birthdate, 0 when the profile has none
NoAccount ==
  [present |-> FALSE, user_id |-> "", total_words |-> 0, total_sessions |-> 0,
   birth_year |-> 0]
EmptyMap == [x \in {} |-> x]

VARIABLES
  ss,            \* st.session_state
  user_files,    \* user_data_<hash>.json, by user id
  account_files, \* accounts/<user_id>_account.json, by user id
  today,         \* date.today()
  used,          \* how many submissions and saved edits were made (bounds the run)
  image_files,   \* user_images/<user_id>/image_metadata.json, by user id
  last           \* the last user action and its outcome (history variable)

vars == <<ss, user_files, account_files, today, used, image_files, last>>

(***************************************************************************)
(* Maps with a dynamic key set (Python dicts).                             *)
(***************************************************************************)
Has(d, k) == k \in DOMAIN d
Get(d, k, default) == IF k \in DOMAIN d THEN d[k] ELSE default
Put(d, k, v) == [x \in (DOMAIN d) \cup {k} |-> IF x = k THEN v ELSE d[x]]

(***************************************************************************)
(* SECTION 9: JSON storage.  A file is absent, unreadable (a write that     *)
(* failed after open(filename, 'w') truncated it) or holds a document.     *)
(* json.dump writes the integer session ids as strings; the loader parses  *)
(* them back with int().                                                   *)
(***************************************************************************)
NoFile == [exists |-> FALSE, parses |-> FALSE, responses |-> EmptyMap]
CorruptFile == [exists |-> TRUE, parses |-> FALSE, responses |-> EmptyMap]

\* str(session_id), as json.dump writes a dict key
IdStr(n) == ToString(n)

\* Fault injection for C8: a loader that compares the string keys of the
\* document with the integer session ids, without int()
ParseInt_missing(str) == -1

\* int(session_id_str); -1 stands for ValueError
ParseInt(str) ==
  IF \E n \in 0..9 : ToString(n) = str
    THEN CHOOSE n \in 0..9 : ToString(n) = str
    ELSE -1

JsonDump(responses_data) ==
  [k \in {IdStr(sid) : sid \in DOMAIN responses_data} |->
     responses_data[CHOOSE sid \in DOMAIN responses_data : IdStr(sid) = k]]

\* load_user_data: the document, or {"responses": {}} when the file is
\* missing, unreadable or has no "responses"
load_user_data(files, user_id) ==
  IF user_id \in DOMAIN files /\ files[user_id].exists /\ files[user_id].parses
    THEN [responses |-> files[user_id].responses]
    ELSE [responses |-> EmptyMap]

\* save_user_data: io is the outcome of the write: "ok", "fail" (the file is
\* left as it was) or "torn" (the file was truncated and not rewritten).
\* Returns the files and the boolean result.
save_user_data(files, user_id, responses_data, io) ==
  IF io = "ok"
    THEN [files |-> Put(files, user_id,
                        [exists |-> TRUE, parses |-> TRUE,
                         responses |-> JsonDump(responses_data)]),
          ok |-> TRUE]
    ELSE IF io = "torn"
      THEN [files |-> Put(files, user_id, CorruptFile), ok |-> FALSE]
      ELSE [files |-> files, ok |-> FALSE]

IOOutcomes == {"ok", "fail", "torn"}

(***************************************************************************)
(* SECTION 12: session state initialisation.                               *)
(***************************************************************************)
EmptySessionStructure(session_id) ==
  [title |-> SessionById(session_id).title, questions |-> EmptyMap,
   word_target |-> SessionById(session_id).word_target]

EmptyResponses == [sid \in SessionIds |-> EmptySessionStructure(sid)]

EmptyConversations == [sid \in SessionIds |-> EmptyMap]

\* "Initialize ALL session state variables": the value of every key that is
\* not in st.session_state
InitialSessionState ==
  [logged_in |-> FALSE,
   user_id |-> "",
   user_account |-> NoAccount,
   show_profile_setup |-> FALSE,
   current_session |-> 0,
   current_question |-> 0,
   responses |-> EmptyMap,
   session_conversations |-> EmptyMap,
   editing |-> NoEdit,
   edit_text |-> "",
   ghostwriter_mode |-> TRUE,
   spellcheck_enabled |-> TRUE,
   editing_word_target |-> FALSE,
   confirming_clear |-> "",
   data_loaded |-> FALSE,
   prompt_index |-> 0,
   current_question_override |-> NoOverride,
   quick_jots |-> <<>>,
   show_jots |-> FALSE,
   show_image_upload |-> FALSE,
   image_prompt_mode |-> FALSE,
   selected_images_for_prompt |-> <<>>,
   streak_days |-> 1,
   last_active |-> 0,
   total_writing_days |-> 1]

\* "Initialize empty session structures"
InitializeEmptySessionStructures(s) ==
  IF s.responses = EmptyMap
    THEN [s EXCEPT !.responses = EmptyResponses,
                   !.session_conversations = EmptyConversations]
    ELSE s

\* "Load user data if logged in and data hasn't been loaded yet"
LoadedQuestions(responses, doc) ==
  [sid \in DOMAIN responses |->
     IF \E k \in DOMAIN doc.responses :
          ParseInt(k) = sid /\ "questions" \in DOMAIN doc.responses[k]
       THEN [responses[sid] EXCEPT !.questions =
               doc.responses[CHOOSE k \in DOMAIN doc.responses : ParseInt(k) = sid].questions]
       ELSE responses[sid]]

LoadUserDataAfterLogin(s, files) ==
  IF s.logged_in /\ s.user_id # "" /\ ~s.data_loaded
    THEN [s EXCEPT !.responses = LoadedQuestions(s.responses, load_user_data(files, s.user_id)),
                   !.data_loaded = TRUE]
    ELSE s

(***************************************************************************)
(* SECTION 21: the effective topic key.                                    *)
(***************************************************************************)
CurrentSessionId(s) == PyItem(SESSIONS, s.current_session).id

CurrentQuestionText(s) ==
  IF s.current_question_override # NoOverride
    THEN s.current_question_override
    ELSE PyItem(PyItem(SESSIONS, s.current_session).questions, s.current_question)

\* The two subscripts above raise IndexError when an index is out of range;
\* the exception ends the script run where it is raised.
ScriptRaises(s) ==
  \/ PyIndexError(SESSIONS, s.current_session)
  \/ /\ s.current_question_override = NoOverride
     /\ PyIndexError(PyItem(SESSIONS, s.current_session).questions, s.current_question)

(***************************************************************************)
(* SECTION 23: transcript lookup / creation.                               *)
(***************************************************************************)
Msg(role, content) == [role |-> role, content |-> content]

OpeningText(s, key) ==
  "Let's explore this topic in detail: " \o key \o "\n\n" \o
  (IF s.image_prompt_mode
     THEN "Photo Story Mode: You've selected "
          \o ToString(Len(s.selected_images_for_prompt))
          \o " photo(s) to write about. I'll ask you questions about each photo to help tell their stories."
     ELSE "Take your time with this - good biographies are built from thoughtful reflection.")

\* Fault injection for C7: a synthesis that leaves out the opening message
SynthesizedTranscript_without_opening(key, saved_response) ==
  << Msg("user", saved_response.answer) >>

SynthesizedTranscript(key, saved_response) ==
  << Msg("assistant", "Let's explore this topic in detail: " \o key),
     Msg("user", saved_response.answer) >>

ConversationLookup(s) ==
  LET sid == CurrentSessionId(s)
      key == CurrentQuestionText(s)
      convs == IF sid \in DOMAIN s.session_conversations
                 THEN s.session_conversations
                 ELSE Put(s.session_conversations, sid, EmptyMap)
      conversation == Get(convs[sid], key, <<>>)
      questions == s.responses[sid].questions
  IN  IF conversation # <<>>
        THEN [s EXCEPT !.session_conversations = convs]
        ELSE IF key \in DOMAIN questions
          THEN [s EXCEPT !.session_conversations =
                  Put(convs, sid, Put(convs[sid], key, SynthesizedTranscript(key, questions[key])))]
          ELSE [s EXCEPT !.session_conversations =
                  Put(convs, sid, Put(convs[sid], key, << Msg("assistant", OpeningText(s, key)) >>))]

\* The main interview flow runs below two gates: the profile setup modal
\* and the login page each end the run with st.stop()
MainFlowRuns(s) == ~s.show_profile_setup /\ s.logged_in

\* One execution of the script from the top, after a handler called st.rerun()
Rerun(s, files) ==
  LET s1 == InitializeEmptySessionStructures(s)
      s2 == LoadUserDataAfterLogin(s1, files)
  IN  IF ~MainFlowRuns(s2) \/ ScriptRaises(s2) THEN s2 ELSE ConversationLookup(s2)

(***************************************************************************)
(* SECTION 8 / 11: logout and login.                                       *)
(***************************************************************************)
\* logout_user deletes these keys; the next run's initialisation gives each
\* its initial value again.  Every other key keeps its value.
logout_user(s) ==
  [s EXCEPT !.user_id = InitialSessionState.user_id,
            !.user_account = InitialSessionState.user_account,
            !.logged_in = InitialSessionState.logged_in,
            !.show_profile_setup = InitialSessionState.show_profile_setup,
            !.current_session = InitialSessionState.current_session,
            !.current_question = InitialSessionState.current_question,
            !.responses = InitialSessionState.responses,
            !.session_conversations = InitialSessionState.session_conversations,
            !.data_loaded = InitialSessionState.data_loaded,
            !.show_image_upload = InitialSessionState.show_image_upload,
            !.selected_images_for_prompt = InitialSessionState.selected_images_for_prompt,
            !.image_prompt_mode = InitialSessionState.image_prompt_mode]

\* show_login_form, the branch of a successful authenticate_user
login_success(s, user_record) ==
  [s EXCEPT !.user_id = user_record.user_id,
            !.user_account = user_record,
            !.logged_in = TRUE,
            !.data_loaded = FALSE]

(***************************************************************************)
(* SECTION 18: sidebar navigation; SECTION 21: quick navigation.           *)
(***************************************************************************)
\* Fault injection for C2: a session change that forgets to reset the topic
\* index
select_session_keeping_topic(s, i) ==
  [s EXCEPT !.current_session = i,
            !.editing = NoEdit,
            !.current_question_override = NoOverride,
            !.image_prompt_mode = FALSE]

\* select_session_{i}, and the body shared by the session_selectbox handler
select_session(s, i) ==
  [s EXCEPT !.current_session = i,
            !.current_question = 0,
            !.editing = NoEdit,
            !.current_question_override = NoOverride,
            !.image_prompt_mode = FALSE]

previous_topic_disabled(s) == s.current_question = 0

\* prev_q_sidebar and prev_q_quick
previous_topic(s) ==
  [s EXCEPT !.current_question = Max(0, s.current_question - 1),
            !.editing = NoEdit,
            !.current_question_override = NoOverride,
            !.image_prompt_mode = FALSE]

\* Fault injection for C4: an off-by-one in the boundary test of Next Topic
next_topic_disabled_one_early(s) == s.current_question >= NumQuestions(s.current_session) - 2

next_topic_disabled(s) == s.current_question >= NumQuestions(s.current_session) - 1

\* next_q_sidebar
next_topic(s) ==
  [s EXCEPT !.current_question =
              Min(NumQuestions(s.current_session) - 1, s.current_question + 1),
            !.editing = NoEdit,
            !.current_question_override = NoOverride,
            !.image_prompt_mode = FALSE]

previous_session_disabled(s) == s.current_session = 0

\* prev_session_sidebar
previous_session(s) ==
  [s EXCEPT !.current_session = Max(0, s.current_session - 1),
            !.current_question = 0,
            !.editing = NoEdit,
            !.current_question_override = NoOverride,
            !.image_prompt_mode = FALSE]

next_session_disabled(s) == s.current_session >= Len(SESSIONS) - 1

\* Fault injection for C3: a Next Session handler that keeps the override
next_session_keeping_override(s) ==
  [s EXCEPT !.current_session = Min(Len(SESSIONS) - 1, s.current_session + 1),
            !.current_question = 0,
            !.editing = NoEdit,
            !.image_prompt_mode = FALSE]

\* next_session_sidebar
next_session(s) ==
  [s EXCEPT !.current_session = Min(Len(SESSIONS) - 1, s.current_session + 1),
            !.current_question = 0,
            !.editing = NoEdit,
            !.current_question_override = NoOverride,
            !.image_prompt_mode = FALSE]

\* Fault injection for C6: a New Prompt handler that also rewinds the topic
refresh_prompt_rewinding(s) ==
  LET idx == (s.prompt_index + 1) % Len(FALLBACK_PROMPTS)
  IN  [s EXCEPT !.prompt_index = idx,
                !.current_question = 0,
                !.current_question_override = FALLBACK_PROMPTS[idx + 1],
                !.image_prompt_mode = FALSE]

\* refresh_prompt_btn ("New Prompt")
refresh_prompt(s) ==
  LET idx == (s.prompt_index + 1) % Len(FALLBACK_PROMPTS)
  IN  [s EXCEPT !.prompt_index = idx,
                !.current_question_override = FALLBACK_PROMPTS[idx + 1],
                !.image_prompt_mode = FALSE]

\* use_jot_btn ("Use as Prompt" under the Jot Now text area)
use_jot_as_prompt(s, quick_note) ==
  [s EXCEPT !.current_question_override = quick_note,
            !.prompt_index = (s.prompt_index + 1) % Len(FALLBACK_PROMPTS)]

\* save_jot
save_jot(s, text) ==
  [s EXCEPT !.quick_jots = Append(s.quick_jots, [text |-> text])]

\* use_jot_{i} ("Use as Prompt" in the quick notes viewer)
use_saved_jot(s, i) ==
  [s EXCEPT !.current_question_override = s.quick_jots[i + 1].text,
            !.show_jots = FALSE]

\* delete_jot_{i}
delete_jot(s, i) ==
  [s EXCEPT !.quick_jots = SubSeq(s.quick_jots, 1, i) \o
                            SubSeq(s.quick_jots, i + 2, Len(s.quick_jots))]

(***************************************************************************)
(* Word counting: len(re.findall(r'\w+', text)), the number of maximal     *)
(* runs of word characters.                                                *)
(***************************************************************************)
\* The characters of each text the model uses
Chars(text) ==
  CASE text = "I remember the garden." ->
         << "I", " ", "r", "e", "m", "e", "m", "b", "e", "r", " ", "t", "h", "e", " ",
            "g", "a", "r", "d", "e", "n", "." >>
    [] text = "Home" -> << "H", "o", "m", "e" >>
    [] OTHER -> << >>

WordChars ==
  { "a", "b", "c", "d", "e", "f", "g", "h", "i", "j", "k", "l", "m", "n", "o", "p", "q",
    "r", "s", "t", "u", "v", "w", "x", "y", "z",
    "A", "B", "C", "D", "E", "F", "G", "H", "I", "J", "K", "L", "M", "N", "O", "P", "Q",
    "R", "S", "T", "U", "V", "W", "X", "Y", "Z",
    "0", "1", "2", "3", "4", "5", "6", "7", "8", "9", "_" }

WordCount(text) ==
  LET cs == Chars(text)
  IN  Cardinality({i \in 1..Len(cs) :
                     /\ cs[i] \in WordChars
                     /\ (i = 1 \/ cs[i - 1] \notin WordChars)})

(***************************************************************************)
(* SECTION 13: word count and progress.                                    *)
(***************************************************************************)
RECURSIVE SumWords(_, _)
SumWords(questions, keys) ==
  IF keys = {}
    THEN 0
    ELSE LET question == CHOOSE k \in keys : TRUE
         IN  (IF questions[question].answer # ""
                THEN WordCount(questions[question].answer) ELSE 0)
               + SumWords(questions, keys \ {question})

calculate_author_word_count(s, session_id) ==
  IF session_id \in DOMAIN s.responses
    THEN SumWords(s.responses[session_id].questions,
                  DOMAIN s.responses[session_id].questions)
    ELSE 0

\* Fault injection for C21: the percentage computed with integer division
get_progress_info_integer_division(s, session_id) ==
  LET current_count == calculate_author_word_count(s, session_id)
      target == s.responses[session_id].word_target
  IN  [current_count |-> current_count,
       target |-> target,
       progress_percent |-> IF target = 0 THEN [num |-> 100, den |-> 1]
                            ELSE [num |-> (current_count \div target) * 100, den |-> 1],
       remaining_words |-> Max(0, target - current_count)]

\* get_progress_info; progress_percent is the quotient num / den
get_progress_info(s, session_id) ==
  LET current_count == calculate_author_word_count(s, session_id)
      target == s.responses[session_id].word_target
  IN  [current_count |-> current_count,
       target |-> target,
       progress_percent |-> IF target = 0 THEN [num |-> 100, den |-> 1]
                            ELSE IF target > 0
                              THEN [num |-> current_count * 100, den |-> target]
                              ELSE [num |-> 100, den |-> 1],
       remaining_words |-> Max(0, target - current_count)]

(***************************************************************************)
(* SECTION 10: the writing streak.                                         *)
(***************************************************************************)
\* Fault injection for C24: a streak that keeps growing across a gap
update_streak_ignoring_gap(s, day) ==
  IF s.last_active # day
    THEN [s EXCEPT !.streak_days = s.streak_days + 1,
                   !.total_writing_days = s.total_writing_days + 1,
                   !.last_active = day]
    ELSE s

update_streak(s, day) ==
  IF s.last_active # day
    THEN LET days_diff == day - s.last_active
         IN  [s EXCEPT !.streak_days = IF days_diff = 1 THEN s.streak_days + 1
                                       ELSE IF days_diff > 1 THEN 1
                                       ELSE s.streak_days,
                       !.total_writing_days = s.total_writing_days + 1,
                       !.last_active = day]
    ELSE s

(***************************************************************************)
(* SECTION 13: save_response.  The result is the session state, the files  *)
(* and the returned boolean.                                               *)
(***************************************************************************)
Outcome(s, files, accounts, ok) ==
  [ss |-> s, user_files |-> files, account_files |-> accounts, ok |-> ok]

\* the stats update of save_response, with save_account_data
UpdateAccountStats(s, session_id, answer) ==
  [s EXCEPT !.user_account.total_words = s.user_account.total_words + WordCount(answer),
            !.user_account.total_sessions =
               Cardinality(DOMAIN s.responses[session_id].questions)]

\* Fault injection for C10: an upsert that replaces the session's whole
\* question map
UpsertAnswer_replacing(responses, session_id, question, answer) ==
  LET present == IF session_id \in DOMAIN responses
                   THEN responses
                   ELSE Put(responses, session_id, EmptySessionStructure(session_id))
  IN  [present EXCEPT ![session_id].questions = Put(EmptyMap, question, [answer |-> answer])]

UpsertAnswer(responses, session_id, question, answer) ==
  LET present == IF session_id \in DOMAIN responses
                   THEN responses
                   ELSE Put(responses, session_id, EmptySessionStructure(session_id))
  IN  [present EXCEPT ![session_id].questions =
         Put(present[session_id].questions, question, [answer |-> answer])]

\* Fault injection for C9: save_response without the user-id guard
save_response_unguarded(s, files, accounts, day, session_id, question, answer, io) ==
  LET s1 == update_streak(s, day)
      s2 == IF s1.user_account.present
              THEN UpdateAccountStats(s1, session_id, answer)
              ELSE s1
      accounts2 == IF s1.user_account.present
                     THEN Put(accounts, s2.user_account.user_id, s2.user_account)
                     ELSE accounts
      s3 == [s2 EXCEPT !.responses = UpsertAnswer(s2.responses, session_id, question, answer)]
      saved == save_user_data(files, s3.user_id, s3.responses, io)
  IN  Outcome(s3, saved.files, accounts2, saved.ok)

save_response(s, files, accounts, day, session_id, question, answer, io) ==
  IF s.user_id = ""
    THEN Outcome(s, files, accounts, FALSE)
    ELSE
      LET s1 == update_streak(s, day)
          s2 == IF s1.user_account.present
                  THEN UpdateAccountStats(s1, session_id, answer)
                  ELSE s1
          accounts2 == IF s1.user_account.present
                         THEN Put(accounts, s2.user_account.user_id, s2.user_account)
                         ELSE accounts
          s3 == [s2 EXCEPT !.responses = UpsertAnswer(s2.responses, session_id, question, answer)]
          saved == save_user_data(files, s3.user_id, s3.responses, io)
      IN  Outcome(s3, saved.files, accounts2, saved.ok)

(***************************************************************************)
(* SECTION 14: auto_correct_text.  fixed is what the completion endpoint   *)
(* returns for the text (the text itself when the call raises).            *)
(***************************************************************************)
auto_correct_text(s, text, fixed) ==
  IF text = "" \/ ~s.spellcheck_enabled THEN text ELSE fixed

(***************************************************************************)
(* SECTION 23: the edit handlers and the chat input handler.               *)
(***************************************************************************)
CurrentConversation(s) ==
  Get(s.session_conversations[CurrentSessionId(s)], CurrentQuestionText(s), <<>>)

SetConversation(s, conversation) ==
  [s EXCEPT !.session_conversations[CurrentSessionId(s)] =
     Put(s.session_conversations[CurrentSessionId(s)], CurrentQuestionText(s), conversation)]

\* is_editing, for the message at index i of the displayed transcript
is_editing(s, i) ==
  /\ s.editing.active
  /\ s.editing.sid = CurrentSessionId(s)
  /\ s.editing.key = CurrentQuestionText(s)
  /\ s.editing.i = i

\* Fault injection for C12: a display loop that offers the edit controls on
\* every message
UserIndices_any_role(conversation) == 0..(Len(conversation) - 1)

\* the indices at which the display loop renders a user message
UserIndices(conversation) ==
  {i \in 0..(Len(conversation) - 1) : conversation[i + 1].role = "user"}

\* the pencil button of user message i
start_edit(s, i) ==
  [s EXCEPT !.editing = [active |-> TRUE, sid |-> CurrentSessionId(s),
                         key |-> CurrentQuestionText(s), i |-> i],
            !.edit_text = CurrentConversation(s)[i + 1].content]

\* Fault injection for C11: a Save that appends the new text as a new user
\* message instead of replacing message i
save_edit_appending(s, files, accounts, day, i, typed, fixed, io) ==
  LET new_text == IF s.spellcheck_enabled THEN auto_correct_text(s, typed, fixed) ELSE typed
      conversation == Append(CurrentConversation(s), Msg("user", new_text))
      s1 == SetConversation(s, conversation)
      r == save_response(s1, files, accounts, day,
                         CurrentSessionId(s), CurrentQuestionText(s), new_text, io)
  IN  [r EXCEPT !.ss.editing = NoEdit]

\* the Save button of the edit area of user message i
save_edit(s, files, accounts, day, i, typed, fixed, io) ==
  LET new_text == IF s.spellcheck_enabled THEN auto_correct_text(s, typed, fixed) ELSE typed
      conversation == [CurrentConversation(s) EXCEPT ![i + 1].content = new_text]
      s1 == SetConversation(s, conversation)
      r == save_response(s1, files, accounts, day,
                         CurrentSessionId(s), CurrentQuestionText(s), new_text, io)
  IN  [r EXCEPT !.ss.editing = NoEdit]

\* the Cancel button of the edit area
cancel_edit(s) == [s EXCEPT !.editing = NoEdit]

ErrorMsg == "Thank you for sharing that. Your response has been saved."
PhotoNote == "\n\n**Photo Note:** Keep describing your photos! Who, what, where, when, and why?"

\* messages_for_api after its first entry (the system message, whose content
\* is get_system_prompt()): conversation[:-1], then the new user message
messages_for_api(s, user_input) ==
  LET conversation == Append(CurrentConversation(s), Msg("user", user_input))
      conversation_history == SubSeq(conversation, 1, Len(conversation) - 1)
  IN  conversation_history \o << Msg("user", user_input) >>

\* the assistant turn of a submission; llm_ok is FALSE when building the
\* prompt or the completion call raises
AssistantTurn(s, llm_ok) ==
  IF llm_ok
    THEN Msg("assistant", IF s.image_prompt_mode THEN LLMReply \o PhotoNote ELSE LLMReply)
    ELSE Msg("assistant", ErrorMsg)

\* Fault injection for C14: a chat handler that keeps the new turns only
\* when the write succeeded
chat_input_storing_on_success(s, files, accounts, day, typed, fixed, llm_ok, io) ==
  LET user_input == IF s.spellcheck_enabled THEN auto_correct_text(s, typed, fixed) ELSE typed
      with_user == Append(CurrentConversation(s), Msg("user", user_input))
      conversation == Append(with_user, AssistantTurn(s, llm_ok))
      r == save_response(s, files, accounts, day,
                         CurrentSessionId(s), CurrentQuestionText(s), user_input, io)
  IN  IF r.ok THEN [r EXCEPT !.ss = SetConversation(r.ss, conversation)] ELSE r

\* Fault injection for C13: a chat handler that saves only when the
\* completion call returned
chat_input_saving_on_reply(s, files, accounts, day, typed, fixed, llm_ok, io) ==
  LET user_input == IF s.spellcheck_enabled THEN auto_correct_text(s, typed, fixed) ELSE typed
      with_user == Append(CurrentConversation(s), Msg("user", user_input))
      conversation == Append(with_user, AssistantTurn(s, llm_ok))
      s1 == SetConversation(s, conversation)
  IN  IF llm_ok
        THEN save_response(s1, files, accounts, day,
                           CurrentSessionId(s), CurrentQuestionText(s), user_input, io)
        ELSE Outcome(s1, files, accounts, FALSE)

\* Fault injection for C23: a chat handler that appends no assistant message
\* when the completion call fails
chat_input_dropping_failed_reply(s, files, accounts, day, typed, fixed, llm_ok, io) ==
  LET user_input == IF s.spellcheck_enabled THEN auto_correct_text(s, typed, fixed) ELSE typed
      with_user == Append(CurrentConversation(s), Msg("user", user_input))
      conversation == IF llm_ok THEN Append(with_user, AssistantTurn(s, llm_ok))
                                ELSE with_user
      s1 == SetConversation(s, conversation)
  IN  save_response(s1, files, accounts, day,
                    CurrentSessionId(s), CurrentQuestionText(s), user_input, io)

\* the chat input handler
chat_input(s, files, accounts, day, typed, fixed, llm_ok, io) ==
  LET user_input == IF s.spellcheck_enabled THEN auto_correct_text(s, typed, fixed) ELSE typed
      with_user == Append(CurrentConversation(s), Msg("user", user_input))
      conversation == Append(with_user, AssistantTurn(s, llm_ok))
      s1 == SetConversation(s, conversation)
  IN  save_response(s1, files, accounts, day,
                    CurrentSessionId(s), CurrentQuestionText(s), user_input, io)

(***************************************************************************)
(* SECTION 18: Clear Data.                                                 *)
(***************************************************************************)
\* confirm_delete_session
confirm_delete_session(s, files, accounts, io) ==
  LET s1 == [s EXCEPT !.responses[CurrentSessionId(s)].questions = EmptyMap]
      saved == save_user_data(files, s1.user_id, s1.responses, io)
  IN  Outcome([s1 EXCEPT !.confirming_clear = ""], saved.files, accounts, saved.ok)

\* confirm_delete_all
confirm_delete_all(s, files, accounts, io) ==
  LET s1 == [s EXCEPT !.responses =
               [sid \in DOMAIN s.responses |->
                  IF sid \in SessionIds
                    THEN [s.responses[sid] EXCEPT !.questions = EmptyMap]
                    ELSE s.responses[sid]]]
      saved == save_user_data(files, s1.user_id, s1.responses, io)
  IN  Outcome([s1 EXCEPT !.confirming_clear = ""], saved.files, accounts, saved.ok)

(***************************************************************************)
(* SECTION 24: the word target.                                            *)
(***************************************************************************)
\* edit_word_target_bottom
edit_word_target(s) == [s EXCEPT !.editing_word_target = ~s.editing_word_target]

\* save_word_target_bottom
save_word_target(s, files, accounts, new_target, io) ==
  LET s1 == [s EXCEPT !.responses[CurrentSessionId(s)].word_target = new_target]
      saved == save_user_data(files, s1.user_id, s1.responses, io)
  IN  Outcome([s1 EXCEPT !.editing_word_target = FALSE], saved.files, accounts, saved.ok)

\* cancel_word_target_bottom
cancel_word_target(s) == [s EXCEPT !.editing_word_target = FALSE]

(***************************************************************************)
(* SECTION 7: historical events.  A text is the sequence of its lines      *)
(* (text.split("\n")): the empty text is <<"">>, and a text that ends in   *)
(* a newline has "" as its last line.  The camera and bullet glyphs of the *)
(* source are written [photo] and * here.                                  *)
(***************************************************************************)
EmptyText == <<"">>

\* a + b on texts
Cat(a, b) == SubSeq(a, 1, Len(a) - 1) \o <<a[Len(a)] \o b[1]>> \o Tail(b)

RECURSIVE CatAll(_)
CatAll(texts) == IF texts = <<>> THEN EmptyText ELSE Cat(Head(texts), CatAll(Tail(texts)))

\* the rows that create_default_events_csv writes (year_range, event, region)
DEFAULT_EVENTS ==
  << [year_range |-> "1920s", event |-> "Women get the vote in UK", region |-> "UK"],
     [year_range |-> "1920s", event |-> "BBC founded", region |-> "UK"],
     [year_range |-> "1930s", event |-> "Great Depression", region |-> "Global"],
     [year_range |-> "1930s", event |-> "George VI coronation", region |-> "UK"],
     [year_range |-> "1940s", event |-> "World War II", region |-> "Global"],
     [year_range |-> "1940s", event |-> "NHS founded", region |-> "UK"],
     [year_range |-> "1950s", event |-> "Coronation of Elizabeth II", region |-> "UK"],
     [year_range |-> "1950s", event |-> "Suez Crisis", region |-> "UK/Global"],
     [year_range |-> "1960s", event |-> "Man on the moon", region |-> "Global"],
     [year_range |-> "1960s", event |-> "Beatles become famous", region |-> "UK"],
     [year_range |-> "1970s", event |-> "UK joins EEC", region |-> "UK"],
     [year_range |-> "1970s", event |-> "Oil crisis", region |-> "Global"],
     [year_range |-> "1980s", event |-> "Falklands War", region |-> "UK"],
     [year_range |-> "1980s", event |-> "Live Aid concert", region |-> "Global"],
     [year_range |-> "1990s", event |-> "World Wide Web invented", region |-> "Global"],
     [year_range |-> "2000s", event |-> "Financial crisis", region |-> "Global"],
     [year_range |-> "2000s", event |-> "London bombings", region |-> "UK"],
     [year_range |-> "2010s", event |-> "London Olympics", region |-> "UK"],
     [year_range |-> "2010s", event |-> "Brexit referendum", region |-> "UK"],
     [year_range |-> "2020s", event |-> "COVID-19 pandemic", region |-> "Global"],
     [year_range |-> "2020s", event |-> "Queen Elizabeth II dies", region |-> "UK"] >>

\* datetime.now().year
CurrentYear == 2026

\* the events of one decade with their approx_age, kept when the age is >= 0
EventsOfDecade(rows, birth_year, decade_year) ==
  LET decade_key == ToString(decade_year) \o "s"
      in_decade == SelectSeq(rows, LAMBDA row : row.year_range = decade_key)
      age_at_event == (decade_year + 5) - birth_year
  IN  IF age_at_event >= 0
        THEN [i \in 1..Len(in_decade) |->
                [event |-> in_decade[i].event, year_range |-> in_decade[i].year_range,
                 region |-> in_decade[i].region, approx_age |-> age_at_event]]
        ELSE <<>>

\* the loop over range(start_decade_year, current_year + 10, 10)
RECURSIVE RelevantEvents(_, _, _)
RelevantEvents(rows, birth_year, decade_year) ==
  IF decade_year >= CurrentYear + 10
    THEN <<>>
    ELSE EventsOfDecade(rows, birth_year, decade_year)
           \o RelevantEvents(rows, birth_year, decade_year + 10)

\* get_events_for_birth_year: the list is built decade by decade in ascending
\* order, so the stable sort by year_range leaves it as built; at most 20
get_events_for_birth_year(rows, birth_year) ==
  LET relevant_events == RelevantEvents(rows, birth_year, (birth_year \div 10) * 10)
  IN  SubSeq(relevant_events, 1, Min(20, Len(relevant_events)))

\* An events collaborator that leaves out the age test: it hands over the
\* event of the birth decade also when its approx_age is negative
EventsOfDecadeUnfiltered(rows, birth_year, decade_year) ==
  LET decade_key == ToString(decade_year) \o "s"
      in_decade == SelectSeq(rows, LAMBDA row : row.year_range = decade_key)
  IN  [i \in 1..Len(in_decade) |->
         [event |-> in_decade[i].event, year_range |-> in_decade[i].year_range,
          region |-> in_decade[i].region,
          approx_age |-> (decade_year + 5) - birth_year]]

RECURSIVE RelevantEventsUnfiltered(_, _, _)
RelevantEventsUnfiltered(rows, birth_year, decade_year) ==
  IF decade_year >= CurrentYear + 10
    THEN <<>>
    ELSE EventsOfDecadeUnfiltered(rows, birth_year, decade_year)
           \o RelevantEventsUnfiltered(rows, birth_year, decade_year + 10)

events_unfiltered(rows, birth_year) ==
  LET relevant_events ==
        RelevantEventsUnfiltered(rows, birth_year, (birth_year \div 10) * 10)
  IN  SubSeq(relevant_events, 1, Min(20, Len(relevant_events)))

\* The years of birth of the profiles on disk; 0 is a profile without a
\* birthdate
BirthYears == {0, 1946}

\* What the events collaborator can hand to get_system_prompt for a year of
\* birth: the list of get_events_for_birth_year, [] when it failed, and the
\* list of a collaborator that did not filter
EventLists(birth_year) ==
  { get_events_for_birth_year(DEFAULT_EVENTS, birth_year),
    events_unfiltered(DEFAULT_EVENTS, birth_year),
    <<>> }

(***************************************************************************)
(* SECTION 2: images.  user_images/<user_id>/image_metadata.json as the    *)
(* earlier uploads left it: two photos in the first session, none in the   *)
(* others.                                                                 *)
(***************************************************************************)
IMAGE_METADATA ==
  [session_id \in SessionIds |->
     IF session_id = SESSIONS[1].id
       THEN << [id |-> "a1b2c3d4", original_filename |-> "wedding.jpg",
                description |-> "Our wedding day", session_id |-> session_id],
               [id |-> "0f1e2d3c", original_filename |-> "garden.jpg",
                description |-> "", session_id |-> session_id] >>
       ELSE <<>>]

\* get_session_images(user_id, session_id), read from the metadata file
SessionImages(files, user_id, session_id) ==
  IF user_id \in DOMAIN files /\ session_id \in DOMAIN files[user_id]
    THEN files[user_id][session_id]
    ELSE <<>>

get_session_images(s, session_id) == SessionImages(image_files, s.user_id, session_id)

\* str(uuid.uuid4())[:8]
PhotoIds == {"a1b2c3d4", "0f1e2d3c", "5e6f7a8b"}

\* save_uploaded_image_simple with save_image_metadata: the metadata file
\* after the upload; written is FALSE when save_image_metadata fails
save_uploaded_image_simple(files, user_id, session_id, unique_id, original_filename, description, written) ==
  LET image_info == [id |-> unique_id, original_filename |-> original_filename,
                     description |-> description, session_id |-> session_id]
  IN  IF written /\ user_id \in DOMAIN files
        THEN [files EXCEPT ![user_id] =
                Put(files[user_id], session_id,
                    Append(SessionImages(files, user_id, session_id), image_info))]
        ELSE files

\* the list without its first entry that has the id
RECURSIVE PopFirstWithId(_, _)
PopFirstWithId(images, image_id) ==
  IF images = <<>>
    THEN <<>>
    ELSE IF Head(images).id = image_id
      THEN Tail(images)
      ELSE <<Head(images)>> \o PopFirstWithId(Tail(images), image_id)

\* delete_image_simple: the metadata file after the call; written is FALSE
\* when removing the files or writing the metadata fails
delete_image_simple(files, user_id, session_id, image_id, written) ==
  IF written /\ user_id \in DOMAIN files /\ session_id \in DOMAIN files[user_id]
    THEN [files EXCEPT ![user_id][session_id] = PopFirstWithId(@, image_id)]
    ELSE files

(***************************************************************************)
(* SECTION 15: get_system_prompt.                                          *)
(***************************************************************************)
\* one line of the historical context
event_text(event) ==
  "- " \o event.event \o " (" \o event.year_range \o ")"
    \o (IF event.region = "UK" THEN " [UK]" ELSE "")
    \o (IF event.approx_age >= 0 THEN " (Age " \o ToString(event.approx_age) \o ")" ELSE "")

\* historical_context, for the events that get_events_for_birth_year returned
historical_context(s, events) ==
  IF s.user_account.present /\ s.user_account.birth_year # 0 /\ events # <<>>
    THEN LET shown == SubSeq(events, 1, Min(5, Len(events)))
         IN  << "",
                "HISTORICAL CONTEXT (Born " \o ToString(s.user_account.birth_year) \o "):",
                "During their lifetime, these major events occurred:" >>
               \o [i \in 1..Len(shown) |-> event_text(shown[i])]
               \o << "",
                     "Consider how these historical moments might have shaped their experiences and perspectives.",
                     "" >>
    ELSE EmptyText

\* get_images_for_prompt_simple, for the images that get_session_images returned
get_images_for_prompt_simple(images) ==
  IF images = <<>>
    THEN EmptyText
    ELSE LET shown == SubSeq(images, 1, Min(5, Len(images)))
         IN  << "", "", "[photo] **PHOTOS UPLOADED FOR THIS MEMORY:**" >>
               \o [i \in 1..Len(shown) |->
                     "- Photo: " \o shown[i].original_filename
                       \o (IF shown[i].description # ""
                             THEN " - " \o shown[i].description ELSE "")]
               \o << "",
                     "**Use these photos to ask specific questions about:",
                     "1. Who is in the photo?",
                     "2. Where was it taken?",
                     "3. When was it taken?",
                     "4. What's happening in the photo?",
                     "5. What emotions does it bring up?",
                     "6. What happened before/after this moment?**",
                     "" >>

\* image_context
image_context(s, images) ==
  IF s.logged_in /\ s.user_id # "" /\ images # <<>>
    THEN get_images_for_prompt_simple(images)
    ELSE EmptyText

photo_prompts ==
  << "Who is in this photo?",
     "Where and when was this taken?",
     "What was happening just before/after this moment?",
     "What emotions does this photo bring up?",
     "Why was this photo taken/saved?" >>

\* Fault injection for C18: a sample drawn with replacement
RandomSamples_with_replacement(population, k) ==
  { [j \in 1..k |-> population[pick[j]]] :
      pick \in [1..k -> 1..Len(population)] }

\* the values random.sample(population, k) can return: every sequence of k
\* elements at distinct positions of the population
RandomSamples(population, k) ==
  { [j \in 1..k |-> population[pick[j]]] :
      pick \in { f \in [1..k -> 1..Len(population)] :
                   \A a, b \in 1..k : a # b => f[a] # f[b] } }

\* the photos the photo story section covers
StoryPhotos(s) ==
  SubSeq(s.selected_images_for_prompt, 1, Min(3, Len(s.selected_images_for_prompt)))

\* the part of image_prompt_section that one photo adds; selected_prompts is
\* what random.sample returned for it
PhotoStory(idx, img, selected_prompts) ==
  << "**Photo " \o ToString(idx + 1) \o ": " \o img.original_filename \o "**" >>
    \o (IF img.description # "" THEN << "Description: " \o img.description >> ELSE << >>)
    \o [j \in 1..Len(selected_prompts) |-> "* " \o selected_prompts[j]]
    \o << "", "" >>

RECURSIVE PhotoStories(_, _, _)
PhotoStories(photos, samples, idx) ==
  IF idx >= Len(photos)
    THEN EmptyText
    ELSE Cat(PhotoStory(idx, photos[idx + 1], samples[idx + 1]),
             PhotoStories(photos, samples, idx + 1))

\* image_prompt_section; samples[n] is the n-th value of random.sample
image_prompt_section(s, samples) ==
  IF s.image_prompt_mode /\ s.selected_images_for_prompt # <<>>
    THEN Cat(<< "", "", "[photo] **PHOTO STORY MODE:**",
                "The user has selected specific photos to write about. Ask questions about these specific photos:",
                "", "" >>,
             PhotoStories(StoryPhotos(s), samples, 0))
    ELSE EmptyText

GhostwriterRole ==
  "ROLE: You are a senior literary biographer with multiple award-winning books to your name."

CasualRole ==
  "You are a warm, professional biographer helping document a life story."

GhostwriterInstructions ==
  << "", "",
     "YOUR APPROACH:",
     "1. Listen like an archivist",
     "2. Think in scenes, sensory details, and emotional truth",
     "3. Connect personal stories to historical context when relevant",
     "4. Find the story that needs to be told",
     "5. When photos are mentioned, ask SPECIFIC questions about them",
     "",
     "PHOTO QUESTIONS TO ASK:",
     "* \"Who are the people in this photo?\"",
     "* \"What was happening that day?\"",
     "* \"Where was this taken and why were you there?\"",
     "* \"What do you remember feeling when this was taken?\"",
     "* \"What happened right after this photo was taken?\"",
     "",
     "Tone: Literary but not pretentious. Serious but not solemn.",
     "",
     "IMPORTANT: When photos are mentioned, ask specific, detailed questions about them." >>

CasualInstructions ==
  << "", "",
     "Please:",
     "1. Listen actively",
     "2. Acknowledge warmly",
     "3. Ask ONE natural follow-up question that connects to historical context or photos",
     "4. When photos are mentioned, ask about the people, place, and emotions",
     "",
     "PHOTO QUESTIONS:",
     "* \"Tell me about the people in this photo\"",
     "* \"What's the story behind this moment?\"",
     "* \"How do you feel when you look at this photo?\"",
     "",
     "Tone: Kind, curious, professional" >>

\* Fault injection for C19: a builder that puts the photo story section
\* before the photo context
get_system_prompt_story_first(s, events, images, samples) ==
  LET current_session == PyItem(SESSIONS, s.current_session)
      current_question == CurrentQuestionText(s)
  IN  CatAll(<< << IF s.ghostwriter_mode THEN GhostwriterRole ELSE CasualRole,
                   "",
                   "CURRENT SESSION: Session " \o ToString(current_session.id)
                     \o ": " \o current_session.title,
                   "CURRENT TOPIC: \"" \o current_question \o "\"",
                   "" >>,
                historical_context(s, events),
                image_prompt_section(s, samples),
                image_context(s, images),
                IF s.ghostwriter_mode THEN GhostwriterInstructions ELSE CasualInstructions >>)

\* get_system_prompt; events and images are what the two collaborators
\* return during the call, samples what random.sample returns
get_system_prompt(s, events, images, samples) ==
  LET current_session == PyItem(SESSIONS, s.current_session)
      current_question == CurrentQuestionText(s)
  IN  CatAll(<< << IF s.ghostwriter_mode THEN GhostwriterRole ELSE CasualRole,
                   "",
                   "CURRENT SESSION: Session " \o ToString(current_session.id)
                     \o ": " \o current_session.title,
                   "CURRENT TOPIC: \"" \o current_question \o "\"",
                   "" >>,
                historical_context(s, events),
                image_context(s, images),
                image_prompt_section(s, samples),
                IF s.ghostwriter_mode THEN GhostwriterInstructions ELSE CasualInstructions >>)

(***************************************************************************)
(* SECTION 18 and SECTION 21: interview style and image controls.          *)
(***************************************************************************)
\* ghostwriter_toggle
toggle_ghostwriter(s) == [s EXCEPT !.ghostwriter_mode = ~s.ghostwriter_mode]

\* toggle_image_upload
toggle_image_upload(s) == [s EXCEPT !.show_image_upload = ~s.show_image_upload]

\* has_images
has_images(s) == s.logged_in /\ get_session_images(s, CurrentSessionId(s)) # <<>>

\* photo_stories_btn
photo_stories(s) == [s EXCEPT !.image_prompt_mode = TRUE]

\* the "Use" button of one photo of the gallery: display_simple_gallery
\* returns the photos whose button was pressed in this run, which is this one
use_photo(s, img_info) == [s EXCEPT !.selected_images_for_prompt = <<img_info>>]

(***************************************************************************)
(* The actions: one user action each.                                      *)
(***************************************************************************)
\* The history variable: the handler, whether it ran (for a save: what it
\* returned), the text it was given, the session id and topic key it was
\* about, and (for a chat submission) whether the completion call returned.
LastOp(op, ok, text, sid, key) ==
  [op |-> op, ok |-> ok, text |-> text, sid |-> sid, key |-> key, llm |-> TRUE]

Last(op, ok, text) == LastOp(op, ok, text, 0, "")

\* A handler that touches no file, followed by the rerun
Step(s, op, text) ==
  /\ ss' = Rerun(s, user_files)
  /\ last' = Last(op, TRUE, text)
  /\ UNCHANGED <<user_files, account_files, today, used, image_files>>

\* A press on a button: st.button returns False for a button that is
\* rendered disabled, so its handler does not run and nothing changes
PressNextTopic(s, files) ==
  IF next_topic_disabled(s) THEN s ELSE Rerun(next_topic(s), files)

PressPreviousTopic(s, files) ==
  IF previous_topic_disabled(s) THEN s ELSE Rerun(previous_topic(s), files)

PressNextSession(s, files) ==
  IF next_session_disabled(s) THEN s ELSE Rerun(next_session(s), files)

PressPreviousSession(s, files) ==
  IF previous_session_disabled(s) THEN s ELSE Rerun(previous_session(s), files)

Pressed(s, disabled, op) ==
  /\ ss' = s
  /\ last' = Last(op, ~disabled, "")
  /\ UNCHANGED <<user_files, account_files, today, used, image_files>>

Login ==
  /\ ~ss.logged_in
  /\ \E u \in DOMAIN account_files :
       Step(login_success(ss, account_files[u]), "login", u)

Logout ==
  /\ ss.logged_in
  /\ ss.user_account.present
  /\ Step(logout_user(ss), "logout", "")

SelectSession ==
  /\ ss.logged_in
  /\ \E i \in 0..(Len(SESSIONS) - 1) :
       /\ ss' = Rerun(select_session(ss, i), user_files)
       /\ last' = LastOp("select_session", TRUE, "", SESSIONS[i + 1].id, "")
       /\ UNCHANGED <<user_files, account_files, today, used, image_files>>

\* the button of the session that is already current
ReselectSession ==
  /\ ss.logged_in
  /\ ss' = Rerun(select_session(ss, ss.current_session), user_files)
  /\ last' = LastOp("select_session", TRUE, "", CurrentSessionId(ss), "")
  /\ UNCHANGED <<user_files, account_files, today, used, image_files>>

SessionSelectbox ==
  /\ ss.logged_in
  /\ \E i \in 0..(Len(SESSIONS) - 1) :
       /\ i # ss.current_session
       /\ ss' = Rerun(select_session(ss, i), user_files)
       /\ last' = LastOp("session_selectbox", TRUE, "", SESSIONS[i + 1].id, "")
       /\ UNCHANGED <<user_files, account_files, today, used, image_files>>

PrevTopicSidebar ==
  /\ ss.logged_in
  /\ Pressed(PressPreviousTopic(ss, user_files), previous_topic_disabled(ss), "prev_q_sidebar")

PrevTopicQuick ==
  /\ ss.logged_in
  /\ Pressed(PressPreviousTopic(ss, user_files), previous_topic_disabled(ss), "prev_q_quick")

NextTopic ==
  /\ ss.logged_in
  /\ Pressed(PressNextTopic(ss, user_files), next_topic_disabled(ss), "next_q_sidebar")

PrevSession ==
  /\ ss.logged_in
  /\ Pressed(PressPreviousSession(ss, user_files), previous_session_disabled(ss), "prev_session_sidebar")

NextSession ==
  /\ ss.logged_in
  /\ Pressed(PressNextSession(ss, user_files), next_session_disabled(ss), "next_session_sidebar")

NewPrompt ==
  /\ ss.logged_in
  /\ Step(refresh_prompt(ss), "refresh_prompt_btn", "")

UseJotAsPrompt ==
  /\ ss.logged_in
  /\ \E quick_note \in JotTexts :
       Step(use_jot_as_prompt(ss, quick_note), "use_jot_btn", quick_note)

SaveJot ==
  /\ ss.logged_in
  /\ Len(ss.quick_jots) < MaxJots
  /\ \E quick_note \in JotTexts :
       Step(save_jot(ss, quick_note), "save_jot_btn", quick_note)

ViewJots ==
  /\ ss.logged_in
  /\ ss.quick_jots # <<>>
  /\ Step([ss EXCEPT !.show_jots = TRUE], "view_jots_btn", "")

UseSavedJot ==
  /\ ss.logged_in
  /\ ss.show_jots
  /\ \E i \in 0..(Len(ss.quick_jots) - 1) :
       Step(use_saved_jot(ss, i), "use_jot_i", ss.quick_jots[i + 1].text)

DeleteJot ==
  /\ ss.logged_in
  /\ ss.show_jots
  /\ \E i \in 0..(Len(ss.quick_jots) - 1) :
       Step(delete_jot(ss, i), "delete_jot_i", "")

CloseJots ==
  /\ ss.logged_in
  /\ ss.show_jots
  /\ ss.quick_jots # <<>>
  /\ Step([ss EXCEPT !.show_jots = FALSE], "close_jots_btn", "")

\* A handler that writes files, followed by the rerun
StepIO(r, op, text) ==
  /\ ss' = Rerun(r.ss, r.user_files)
  /\ user_files' = r.user_files
  /\ account_files' = r.account_files
  /\ last' = LastOp(op, r.ok, text, CurrentSessionId(ss), CurrentQuestionText(ss))
  /\ UNCHANGED <<today, image_files>>

\* the chat input handler, followed by the rerun
StepChat(r, text, llm_ok) ==
  /\ ss' = Rerun(r.ss, r.user_files)
  /\ user_files' = r.user_files
  /\ account_files' = r.account_files
  /\ last' = [op |-> "chat_input", ok |-> r.ok, text |-> text,
              sid |-> CurrentSessionId(ss), key |-> CurrentQuestionText(ss),
              llm |-> llm_ok, sent |-> << messages_for_api(ss, text) >>]
  /\ UNCHANGED <<today, image_files>>

ChatSubmit ==
  /\ ss.logged_in
  /\ used.submits < MaxSubmits
  /\ \E typed \in Texts, fixed \in Texts, llm_ok \in BOOLEAN, io \in IOOutcomes :
       /\ (~ss.spellcheck_enabled => fixed = typed)
       /\ StepChat(chat_input(ss, user_files, account_files, today, typed, fixed, llm_ok, io),
                   auto_correct_text(ss, typed, fixed), llm_ok)
  /\ used' = [used EXCEPT !.submits = @ + 1]

StartEdit ==
  /\ ss.logged_in
  /\ \E i \in UserIndices(CurrentConversation(ss)) :
       /\ ~is_editing(ss, i)
       /\ Step(start_edit(ss, i), "edit", "")

SaveEdit ==
  /\ ss.logged_in
  /\ used.edits < MaxEdits
  /\ \E i \in UserIndices(CurrentConversation(ss)) :
       /\ is_editing(ss, i)
       /\ \E typed \in Texts, fixed \in Texts, io \in IOOutcomes :
            /\ (~ss.spellcheck_enabled => fixed = typed)
            /\ StepIO(save_edit(ss, user_files, account_files, today, i, typed, fixed, io),
                      "save_edit", auto_correct_text(ss, typed, fixed))
  /\ used' = [used EXCEPT !.edits = @ + 1]

CancelEdit ==
  /\ ss.logged_in
  /\ \E i \in UserIndices(CurrentConversation(ss)) :
       /\ is_editing(ss, i)
       /\ Step(cancel_edit(ss), "cancel_edit", "")

ToggleSpellcheck ==
  /\ ss.logged_in
  /\ Step([ss EXCEPT !.spellcheck_enabled = ~ss.spellcheck_enabled], "spellcheck_toggle", "")

ClearSessionButton ==
  /\ ss.logged_in
  /\ ss.confirming_clear = ""
  /\ Step([ss EXCEPT !.confirming_clear = "session"], "clear_session_btn", "")

ClearAllButton ==
  /\ ss.logged_in
  /\ ss.confirming_clear = ""
  /\ Step([ss EXCEPT !.confirming_clear = "all"], "clear_all_btn", "")

CancelClear ==
  /\ ss.logged_in
  /\ ss.confirming_clear # ""
  /\ Step([ss EXCEPT !.confirming_clear = ""], "cancel_delete", "")

ConfirmDeleteSession ==
  /\ ss.logged_in
  /\ ss.confirming_clear = "session"
  /\ \E io \in IOOutcomes :
       StepIO(confirm_delete_session(ss, user_files, account_files, io),
              "confirm_delete_session", "")
  /\ UNCHANGED used

ConfirmDeleteAll ==
  /\ ss.logged_in
  /\ ss.confirming_clear = "all"
  /\ \E io \in IOOutcomes :
       StepIO(confirm_delete_all(ss, user_files, account_files, io),
              "confirm_delete_all", "")
  /\ UNCHANGED used

\* save_response called as a function, for any session, topic key and text
TopicKeys(session_id) ==
  {SessionById(session_id).questions[q] : q \in 1..Len(SessionById(session_id).questions)}
    \cup {FALLBACK_PROMPTS[j] : j \in 1..Len(FALLBACK_PROMPTS)}
    \cup JotTexts

RecordAnswer ==
  /\ used.submits < MaxRecords
  /\ \E session_id \in SessionIds, answer \in Texts, io \in IOOutcomes :
       \E question \in TopicKeys(session_id) :
         LET r == save_response(ss, user_files, account_files, today,
                                session_id, question, answer, io)
         IN  /\ ss' = r.ss
             /\ user_files' = r.user_files
             /\ account_files' = r.account_files
             /\ last' = LastOp("save_response", r.ok, answer, session_id, question)
  /\ used' = [used EXCEPT !.submits = @ + 1]
  /\ UNCHANGED <<today, image_files>>

\* midnight passes
DayPasses ==
  /\ today < MaxDay
  /\ today' = today + 1
  /\ last' = Last("day", TRUE, "")
  /\ UNCHANGED <<ss, user_files, account_files, used, image_files>>

\* The accounts and files on disk before the first run, and the first run
InitDisk ==
  /\ user_files = [u \in Users |-> NoFile]
  /\ account_files = [u \in Users |->
        [present |-> TRUE, user_id |-> u, total_words |-> 0, total_sessions |-> 0,
         birth_year |-> 0]]
  /\ today = 0
  /\ used = [submits |-> 0, edits |-> 0]
  /\ image_files = [u \in Users |-> IMAGE_METADATA]
  /\ last = Last("start", TRUE, "")

Init ==
  /\ InitDisk
  /\ ss = Rerun(InitialSessionState, user_files)

\* save_response is entered either with no user (the state of a fresh
\* browser session) or with a user logged in
InitRecorder ==
  /\ InitDisk
  /\ \/ ss = Rerun(InitialSessionState, user_files)
     \/ \E u \in Users :
          ss = Rerun(login_success(InitialSessionState, account_files[u]), user_files)

\* The navigation machine: every handler that writes current_session,
\* current_question or current_question_override, with login and logout.
NavNext ==
  \/ Login
  \/ Logout
  \/ SelectSession
  \/ SessionSelectbox
  \/ PrevTopicSidebar
  \/ PrevTopicQuick
  \/ NextTopic
  \/ PrevSession
  \/ NextSession
  \/ NewPrompt
  \/ UseJotAsPrompt
  \/ SaveJot
  \/ ViewJots
  \/ UseSavedJot
  \/ DeleteJot
  \/ CloseJots

SpecNav == Init /\ [][NavNext]_vars

\* The interview machine: login, logout, navigation, prompt override and
\* chat submissions.
Next ==
  \/ Login
  \/ Logout
  \/ SelectSession
  \/ PrevTopicQuick
  \/ NextTopic
  \/ NewPrompt
  \/ ChatSubmit

Spec == Init /\ [][Next]_vars

\* The editing machine: one login, navigation over the regular topics, chat
\* submissions and edits of user messages.
EditNext ==
  \/ Login
  \/ SelectSession
  \/ PrevTopicQuick
  \/ NextTopic
  \/ ChatSubmit
  \/ StartEdit
  \/ SaveEdit
  \/ CancelEdit

SpecEdit == Init /\ [][EditNext]_vars

\* The pending-edit machine: on the first topic of the first session and on
\* the override prompt, chat submissions and edits of user messages, with
\* the steps an open edit can survive: a prompt change, Clear Session, and
\* logout followed by login.
PendingNext ==
  \/ Login
  \/ Logout
  \/ NewPrompt
  \/ ReselectSession
  \/ ChatSubmit
  \/ StartEdit
  \/ SaveEdit
  \/ CancelEdit
  \/ ClearSessionButton
  \/ CancelClear
  \/ ConfirmDeleteSession

SpecPending == Init /\ [][PendingNext]_vars

\* The recorder: save_response applied to any session, topic key and text,
\* with and without a user, on any day.
RecorderNext ==
  \/ RecordAnswer
  \/ DayPasses

SpecRecorder == InitRecorder /\ [][RecorderNext]_vars

\* The values random.sample returns during one call of get_system_prompt:
\* one sample for each photo of the photo story section
SampleRuns(s) ==
  IF s.image_prompt_mode /\ s.selected_images_for_prompt # <<>>
    THEN [1..Len(StoryPhotos(s)) ->
            RandomSamples(photo_prompts, Min(3, Len(photo_prompts)))]
    ELSE {<<>>}

\* The event lists get_events_for_birth_year can return during one call of
\* get_system_prompt; it is not called for a profile without a birthdate
EventRuns(s) ==
  IF s.user_account.present /\ s.user_account.birth_year # 0
    THEN EventLists(s.user_account.birth_year)
    ELSE {<<>>}

ToggleGhostwriter ==
  /\ ss.logged_in
  /\ Step(toggle_ghostwriter(ss), "ghostwriter_toggle", "")

ToggleImageUpload ==
  /\ ss.logged_in
  /\ Step(toggle_image_upload(ss), "toggle_image_upload", "")

\* the button is rendered disabled when the session has no photo
TellPhotoStories ==
  /\ ss.logged_in
  /\ has_images(ss)
  /\ Step(photo_stories(ss), "photo_stories_btn", "")

\* the gallery is rendered when the photo panel is open; the handler ends
\* without st.rerun()
UsePhoto ==
  /\ ss.logged_in
  /\ ss.show_image_upload
  /\ \E img_info \in { get_session_images(ss, CurrentSessionId(ss))[n] :
                         n \in 1..Len(get_session_images(ss, CurrentSessionId(ss))) } :
       /\ ss' = use_photo(ss, img_info)
       /\ last' = Last("select_photo", TRUE, img_info.original_filename)
       /\ UNCHANGED <<user_files, account_files, today, used, image_files>>

\* the chat input handler, followed by the rerun; the history keeps the
\* system prompt of the completion call and what it was built from
ChatWithPrompt ==
  /\ ss.logged_in
  /\ used.submits < MaxPrompts
  /\ \E typed \in Texts, fixed \in Texts, llm_ok \in BOOLEAN, io \in IOOutcomes,
        events \in EventRuns(ss), samples \in SampleRuns(ss) :
       /\ (~ss.spellcheck_enabled => fixed = typed)
       /\ LET r == chat_input(ss, user_files, account_files, today, typed, fixed, llm_ok, io)
              images == get_session_images(ss, CurrentSessionId(ss))
          IN  /\ ss' = Rerun(r.ss, r.user_files)
              /\ user_files' = r.user_files
              /\ account_files' = r.account_files
              /\ last' = [op |-> "get_system_prompt", ok |-> r.ok,
                          text |-> auto_correct_text(ss, typed, fixed),
                          sid |-> CurrentSessionId(ss), key |-> CurrentQuestionText(ss),
                          llm |-> llm_ok, built_in |-> ss, events |-> events,
                          images |-> images, samples |-> samples,
                          prompt |-> get_system_prompt(ss, events, images, samples)]
              /\ UNCHANGED <<today, image_files>>
  /\ used' = [used EXCEPT !.submits = @ + 1]

\* The accounts on disk carry a profile with or without a birthdate
InitPrompt ==
  /\ user_files = [u \in Users |-> NoFile]
  /\ \E birth_year \in BirthYears :
       account_files = [u \in Users |->
         [present |-> TRUE, user_id |-> u, total_words |-> 0, total_sessions |-> 0,
          birth_year |-> birth_year]]
  /\ today = 0
  /\ used = [submits |-> 0, edits |-> 0]
  /\ image_files = [u \in Users |-> IMAGE_METADATA]
  /\ last = Last("start", TRUE, "")
  /\ ss = Rerun(InitialSessionState, user_files)

\* The prompt builder: every handler that writes what get_system_prompt
\* reads, and the chat submission that calls it.
PromptNext ==
  \/ Login
  \/ SelectSession
  \/ NewPrompt
  \/ ToggleGhostwriter
  \/ ToggleImageUpload
  \/ TellPhotoStories
  \/ UsePhoto
  \/ ChatWithPrompt

SpecPrompt == InitPrompt /\ [][PromptNext]_vars

\* What the user enters in the number input (min_value 100, max_value 5000)
TargetInputs == {100, 1200, 5000}

EditWordTarget ==
  /\ ss.logged_in
  /\ Step(edit_word_target(ss), "edit_word_target_bottom", "")

SaveWordTarget ==
  /\ ss.logged_in
  /\ ss.editing_word_target
  /\ \E new_target \in TargetInputs, io \in IOOutcomes :
       /\ StepIO(save_word_target(ss, user_files, account_files, new_target, io),
                 "save_word_target_bottom", ToString(new_target))
       /\ UNCHANGED used

CancelWordTarget ==
  /\ ss.logged_in
  /\ ss.editing_word_target
  /\ Step(cancel_word_target(ss), "cancel_word_target_bottom", "")

\* The word target: its handlers, the session buttons, logout and login.
TargetNext ==
  \/ Login
  \/ Logout
  \/ SelectSession
  \/ EditWordTarget
  \/ SaveWordTarget
  \/ CancelWordTarget

SpecTarget == Init /\ [][TargetNext]_vars

\* how many photos the user has (bounds the uploads)
RECURSIVE CountImages(_, _)
CountImages(metadata, sids) ==
  IF sids = {}
    THEN 0
    ELSE LET sid == CHOOSE x \in sids : TRUE
         IN  Len(metadata[sid]) + CountImages(metadata, sids \ {sid})

TotalUserImages(s) ==
  IF s.user_id \in DOMAIN image_files
    THEN CountImages(image_files[s.user_id], DOMAIN image_files[s.user_id])
    ELSE 0

\* What the user uploads
UploadNames == {"beach.jpg"}

\* "Upload Photos" with one file chosen and no description
UploadPhoto ==
  /\ ss.logged_in
  /\ ss.show_image_upload
  /\ TotalUserImages(ss) < MaxPhotos
  /\ \E original_filename \in UploadNames, unique_id \in PhotoIds, written \in BOOLEAN :
       /\ image_files' = save_uploaded_image_simple(image_files, ss.user_id,
                            CurrentSessionId(ss), unique_id, original_filename, "", written)
       /\ ss' = IF written THEN Rerun(ss, user_files) ELSE ss
       /\ last' = Last("simple_upload_btn", written, original_filename)
       /\ UNCHANGED <<user_files, account_files, today, used>>

\* the delete button of one photo of the gallery
DeletePhoto ==
  /\ ss.logged_in
  /\ ss.show_image_upload
  /\ \E n \in 1..Len(get_session_images(ss, CurrentSessionId(ss))), written \in BOOLEAN :
       LET img_info == get_session_images(ss, CurrentSessionId(ss))[n]
       IN  /\ image_files' = delete_image_simple(image_files, ss.user_id,
                                CurrentSessionId(ss), img_info.id, written)
           /\ ss' = IF written THEN Rerun(ss, user_files) ELSE ss
           /\ last' = Last("delete_photo", written, img_info.original_filename)
           /\ UNCHANGED <<user_files, account_files, today, used>>

\* The photos: the gallery, the photo story button and the session buttons.
PhotosNext ==
  \/ Login
  \/ SelectSession
  \/ ToggleImageUpload
  \/ UsePhoto
  \/ TellPhotoStories
  \/ UploadPhoto
  \/ DeletePhoto

SpecPhotos == Init /\ [][PhotosNext]_vars

(***************************************************************************)
(* SECTION 6 / 11: signup, the profile setup modal and the remembered      *)
(* login of the URL parameter.                                             *)
(***************************************************************************)
\* The ids create_user_account gives a new account: the first 12 hex digits
\* of a SHA-256 digest
NewUserIds == {"c7d2e9f04a15"}

\* The values the browser can send as the "user" query parameter
UrlUsers == Users \cup NewUserIds \cup {"", "000000000000"}

\* The years the profile modal offers
ProfileYears == {1946}

\* get_account_data(user_id): the document of accounts/<user_id>_account.json,
\* None (NoAccount) for an empty id or a missing file
get_account_data(accounts, user_id) ==
  IF user_id # "" /\ user_id \in DOMAIN accounts /\ accounts[user_id].present
    THEN accounts[user_id]
    ELSE NoAccount

\* Fault injection for C30: a remembered login that trusts the URL parameter
remembered_login_unchecked(s, accounts, url_user) ==
  IF ~s.logged_in
    THEN [s EXCEPT !.user_id = url_user,
                   !.user_account = get_account_data(accounts, url_user),
                   !.logged_in = TRUE,
                   !.data_loaded = FALSE]
    ELSE s

\* "Check for remembered login via query params"
remembered_login(s, accounts, url_user) ==
  LET account_data == get_account_data(accounts, url_user)
  IN  IF ~s.logged_in /\ account_data.present
        THEN [s EXCEPT !.user_id = url_user,
                       !.user_account = account_data,
                       !.logged_in = TRUE,
                       !.data_loaded = FALSE]
        ELSE s

\* create_user_account: the record, saved unless the write failed
\* (save_account_data swallows the error and the result is still a success)
create_user_account(accounts, user_id, written) ==
  LET user_record == [present |-> TRUE, user_id |-> user_id, total_words |-> 0,
                      total_sessions |-> 0, birth_year |-> 0]
  IN  [user_id |-> user_id, user_record |-> user_record,
       accounts |-> IF written THEN Put(accounts, user_id, user_record) ELSE accounts]

\* show_signup_form, the branch of a valid form and a created account
signup_success(s, files, accounts, user_id, written) ==
  LET result == create_user_account(accounts, user_id, written)
  IN  Outcome([s EXCEPT !.user_id = result.user_id,
                        !.user_account = result.user_record,
                        !.logged_in = TRUE,
                        !.data_loaded = FALSE,
                        !.show_profile_setup = TRUE],
              files, result.accounts, TRUE)

\* show_profile_setup_modal: "Complete Profile" (submit) or "Skip for Now"
profile_setup(s, files, accounts, submit, birth_year, written) ==
  LET s1 == IF submit /\ s.user_account.present
              THEN [s EXCEPT !.user_account.birth_year = birth_year]
              ELSE s
      accounts1 == IF submit /\ s.user_account.present /\ written
                     THEN Put(accounts, s1.user_account.user_id, s1.user_account)
                     ELSE accounts
  IN  Outcome([s1 EXCEPT !.show_profile_setup = FALSE], files, accounts1, TRUE)

RememberedLogin ==
  /\ ~ss.logged_in
  /\ \E url_user \in UrlUsers :
       Step(remembered_login(ss, account_files, url_user), "remembered_login", url_user)

\* the form passed its checks: no account has the email yet
Signup ==
  /\ ~ss.logged_in
  /\ \E user_id \in NewUserIds \ DOMAIN account_files, written \in BOOLEAN :
       StepIO(signup_success(ss, user_files, account_files, user_id, written),
              "signup", user_id)
  /\ UNCHANGED used

ProfileSetup ==
  /\ ss.show_profile_setup
  /\ \E submit \in BOOLEAN, birth_year \in ProfileYears, written \in BOOLEAN :
       StepIO(profile_setup(ss, user_files, account_files, submit, birth_year, written),
              "profile_setup", IF submit THEN ToString(birth_year) ELSE "")
  /\ UNCHANGED used

\* the sidebar and the chat are rendered below the gates
MainLogout == MainFlowRuns(ss) /\ Logout
MainChatSubmit == MainFlowRuns(ss) /\ ChatSubmit
MainStartEdit == MainFlowRuns(ss) /\ StartEdit
MainSaveEdit == MainFlowRuns(ss) /\ SaveEdit

\* Every way into and out of the interview, with the two handlers that
\* record an answer.
LoginNext ==
  \/ Login
  \/ RememberedLogin
  \/ Signup
  \/ ProfileSetup
  \/ MainLogout
  \/ MainChatSubmit
  \/ MainStartEdit
  \/ MainSaveEdit

SpecLogin == Init /\ [][LoginNext]_vars

\* The accounts of a browser that two people use one after the other
TwoUsers == Users \cup {"b81e44d09a6c"}

InitTwoUsers ==
  /\ user_files = [u \in TwoUsers |-> NoFile]
  /\ account_files = [u \in TwoUsers |->
        [present |-> TRUE, user_id |-> u, total_words |-> 0, total_sessions |-> 0,
         birth_year |-> 0]]
  /\ today = 0
  /\ used = [submits |-> 0, edits |-> 0, users |-> {}]
  /\ image_files = [u \in TwoUsers |-> IMAGE_METADATA]
  /\ last = Last("start", TRUE, "")
  /\ ss = Rerun(InitialSessionState, user_files)

\* show_login_form, the branch of a successful authenticate_user; the
\* history keeps who had logged in in this browser session before
LoginUser ==
  /\ ~ss.logged_in
  /\ \E u \in DOMAIN account_files :
       /\ ss' = Rerun(login_success(ss, account_files[u]), user_files)
       /\ last' = [op |-> "login", ok |-> TRUE, text |-> u, sid |-> 0, key |-> "",
                   llm |-> TRUE, seen |-> used.users]
       /\ used' = [used EXCEPT !.users = @ \cup {u}]
       /\ UNCHANGED <<user_files, account_files, today, image_files>>

\* One browser session used by several accounts in turn.
UsersNext ==
  \/ LoginUser
  \/ Logout
  \/ NewPrompt
  \/ SaveJot
  \/ ViewJots
  \/ UseSavedJot
  \/ ChatSubmit
  \/ StartEdit
  \/ CancelEdit

SpecUsers == InitTwoUsers /\ [][UsersNext]_vars

(***************************************************************************)
(* Derived operators used to state the properties.                         *)
(***************************************************************************)
\* 0 <= current_session < |SESSIONS| and 0 <= current_question < |questions|
IndexInBounds(s) ==
  /\ s.current_session \in 0..(Len(SESSIONS) - 1)
  /\ s.current_question \in 0..(Len(SESSIONS[s.current_session + 1].questions) - 1)

\* The transcript and the Answer kept for a session id and a topic key
TranscriptOf(s, sid, key) ==
  IF sid \in DOMAIN s.session_conversations
    THEN Get(s.session_conversations[sid], key, <<>>)
    ELSE <<>>

HasAnswer(s, sid, key) ==
  sid \in DOMAIN s.responses /\ key \in DOMAIN s.responses[sid].questions

AnswerText(s, sid, key) == s.responses[sid].questions[key].answer

AllKeys(s, sid) ==
  (IF sid \in DOMAIN s.responses THEN DOMAIN s.responses[sid].questions ELSE {})
    \cup (IF sid \in DOMAIN s.session_conversations
            THEN DOMAIN s.session_conversations[sid] ELSE {})

\* The contents of the user messages of a transcript, in order
RECURSIVE UserContents(_)
UserContents(conversation) ==
  IF conversation = <<>> THEN <<>>
  ELSE LET rest == UserContents(Tail(conversation))
       IN  IF Head(conversation).role = "user"
             THEN <<Head(conversation).content>> \o rest
             ELSE rest

\* n presses on Next Topic
RECURSIVE PressNextTopicTimes(_, _, _)
PressNextTopicTimes(s, files, n) ==
  IF n = 0 THEN s ELSE PressNextTopicTimes(PressNextTopic(s, files), files, n - 1)

\* Presses on New Prompt until the override is the given fallback prompt
RECURSIVE PressNewPromptUntil(_, _, _, _)
PressNewPromptUntil(s, files, key, n) ==
  IF n = 0 \/ s.current_question_override = key
    THEN s
    ELSE PressNewPromptUntil(Rerun(refresh_prompt(s), files), files, key, n - 1)

\* The user's way to a topic key of a session: the session button, then Next
\* Topic up to a regular topic, or New Prompt up to a fallback prompt, or the
\* text typed into Jot Now and "Use as Prompt"
NavigateTo(s, files, sid, key) ==
  LET i == CHOOSE j \in 0..(Len(SESSIONS) - 1) : SESSIONS[j + 1].id = sid
      qs == SESSIONS[i + 1].questions
      s0 == Rerun(select_session(s, i), files)
  IN  IF \E q \in 1..Len(qs) : qs[q] = key
        THEN PressNextTopicTimes(s0, files, (CHOOSE q \in 1..Len(qs) : qs[q] = key) - 1)
        ELSE IF \E j \in 1..Len(FALLBACK_PROMPTS) : FALLBACK_PROMPTS[j] = key
          THEN PressNewPromptUntil(s0, files, key, Len(FALLBACK_PROMPTS))
          ELSE Rerun(use_jot_as_prompt(s0, key), files)

\* Logout, then login as the same user: every in-memory transcript and
\* answer is discarded and the answers are loaded from the user's file
Restart(s, files, accounts) ==
  LET out == Rerun(logout_user(s), files)
  IN  Rerun(login_success(out, accounts[s.user_id]), files)

(***************************************************************************)
(* C1.                                                                     *)
(***************************************************************************)
\* C1: in every reachable state, for every (session, topic key) that has
\* both a saved Answer and a transcript with a user message, the content of
\* the most recent user message of the transcript equals the Answer's text
\* (after chat submissions, edits of any user message and navigation).
C1_LastUserMessageIsAnswer ==
  \A sid \in SessionIds : \A key \in AllKeys(ss, sid) :
    LET contents == UserContents(TranscriptOf(ss, sid, key))
    IN  (HasAnswer(ss, sid, key) /\ contents # <<>>)
          => contents[Len(contents)] = AnswerText(ss, sid, key)

(***************************************************************************)
(* C2.                                                                     *)
(***************************************************************************)
\* C2: in every reachable state, after any sequence of session selections,
\* previous/next session, previous/next topic, jump-to-session, override
\* changes, logout and login, 0 <= current_session < |SESSIONS| and
\* 0 <= current_question < |SESSIONS[current_session].questions|, so the
\* lookup of the regular topic never raises.
C2_IndexInBounds == IndexInBounds(ss) /\ ~ScriptRaises(ss)

\* a change from the longest session, at its last topic, to a shorter one
C2_Witness ==
  /\ last.op \in {"session_selectbox", "next_session_sidebar"}
  /\ last.ok
  /\ ss.current_session > 0
  /\ NumQuestions(ss.current_session) < NumQuestions(0)
  /\ IndexInBounds(ss)

(***************************************************************************)
(* C3.                                                                     *)
(***************************************************************************)
SessionSelectOps ==
  {"select_session", "session_selectbox", "prev_session_sidebar", "next_session_sidebar"}

\* The index of the session a session-selecting step asks for
C3_Target ==
  IF last'.op = "prev_session_sidebar" THEN ss.current_session - 1
  ELSE IF last'.op = "next_session_sidebar" THEN ss.current_session + 1
  ELSE CHOOSE i \in 0..(Len(SESSIONS) - 1) : SESSIONS[i + 1].id = last'.sid

\* C3: from any state (any topic index, any override), selecting session i
\* with the session button, the previous/next session button or the
\* jump-to-session selectbox results in current_session = i,
\* current_question = 0 and no override, so that the effective topic key is
\* SESSIONS[i].questions[0].
C3_SelectSessionResets ==
  [][(last'.op \in SessionSelectOps /\ last'.ok)
       => /\ C3_Target \in 0..(Len(SESSIONS) - 1)
          /\ ss'.current_session = C3_Target
          /\ ss'.current_question = 0
          /\ ss'.current_question_override = NoOverride
          /\ CurrentQuestionText(ss') = SESSIONS[C3_Target + 1].questions[1]]_vars

C3_Witness ==
  /\ last.op = "next_session_sidebar"
  /\ last.ok
  /\ ss.current_session = 1
  /\ ss.current_question = 0
  /\ ss.current_question_override = NoOverride
  /\ CurrentQuestionText(ss) = SESSIONS[2].questions[1]

(***************************************************************************)
(* C4.                                                                     *)
(***************************************************************************)
\* C4: from topic index 0 of any session, |questions| presses on Next Topic
\* end with the effective topic key equal to the last question of the
\* session; one more press leaves the index at the last index, and Previous
\* Topic at index 0 leaves it at 0.
C4_NextTopicReachesLast ==
  ss.logged_in =>
    \A i \in 0..(Len(SESSIONS) - 1) :
      LET qs == SESSIONS[i + 1].questions
          s0 == Rerun(select_session(ss, i), user_files)
          sN == PressNextTopicTimes(s0, user_files, Len(qs))
      IN  /\ s0.current_question = 0
          /\ sN.current_question = Len(qs) - 1
          /\ CurrentQuestionText(sN) = qs[Len(qs)]
          /\ PressNextTopic(sN, user_files) = sN
          /\ PressPreviousTopic(s0, user_files) = s0

\* the press on Next Topic at the last topic of a session of several topics
C4_Witness ==
  /\ last.op = "next_q_sidebar"
  /\ ~last.ok
  /\ NumQuestions(ss.current_session) > 1
  /\ ss.current_question = NumQuestions(ss.current_session) - 1
  /\ ss.current_question_override = NoOverride
  /\ CurrentQuestionText(ss) =
       SESSIONS[ss.current_session + 1].questions[NumQuestions(ss.current_session)]

(***************************************************************************)
(* C5.                                                                     *)
(***************************************************************************)
TopicStepOps == {"next_q_sidebar", "prev_q_sidebar", "prev_q_quick"}

\* C5: from any state in which an override is set, at every topic index of
\* the current session including the first and the last, Next Topic
\* (respectively Previous Topic) leaves the override cleared and
\* current_question a valid index, so that the effective topic key is a
\* regular topic of the session again.
C5_TopicStepClearsOverride ==
  [][(ss.logged_in /\ ss.current_question_override # NoOverride /\ last'.op \in TopicStepOps)
       => /\ ss'.current_question_override = NoOverride
          /\ IndexInBounds(ss')
          /\ CurrentQuestionText(ss') =
               SESSIONS[ss'.current_session + 1].questions[ss'.current_question + 1]]_vars

(***************************************************************************)
(* C6.                                                                     *)
(***************************************************************************)
SetOverrideOps == {"refresh_prompt_btn", "use_jot_btn", "use_jot_i"}

\* C6: setting an override (New Prompt, or Use as Prompt on a quick note)
\* makes the effective topic key equal to the override text and leaves
\* current_session and current_question unchanged; the topic index that a
\* later navigation step returns to is within bounds.
C6_OverrideKeepsIndex ==
  [][(last'.op \in SetOverrideOps)
       => /\ ss'.current_question_override # NoOverride
          /\ ss'.current_question_override =
               (IF last'.op = "refresh_prompt_btn"
                  THEN FALLBACK_PROMPTS[((ss.prompt_index + 1) % Len(FALLBACK_PROMPTS)) + 1]
                  ELSE last'.text)
          /\ CurrentQuestionText(ss') = ss'.current_question_override
          /\ ss'.current_session = ss.current_session
          /\ ss'.current_question = ss.current_question
          /\ IndexInBounds(ss')]_vars

\* an override set at a topic index other than 0
C6_Witness ==
  /\ last.op = "refresh_prompt_btn"
  /\ ss.current_question > 0
  /\ ss.current_question_override = FALLBACK_PROMPTS[ss.prompt_index + 1]
  /\ CurrentQuestionText(ss) = ss.current_question_override

(***************************************************************************)
(* C7.                                                                     *)
(***************************************************************************)
\* C7: when a step arrives at a (session, topic key) that has no transcript
\* and has a saved Answer with text X, the lookup creates exactly the two
\* messages [assistant opening that poses the topic, user: X]; a second
\* lookup with nothing in between returns the same transcript (its final
\* user message is X and it has not grown).
C7_SynthesisOnce ==
  [][ss'.logged_in
       => LET sid == CurrentSessionId(ss')
              key == CurrentQuestionText(ss')
          IN  /\ (TranscriptOf(ss, sid, key) = <<>> /\ HasAnswer(ss', sid, key))
                   => TranscriptOf(ss', sid, key) =
                        << [role |-> "assistant",
                            content |-> "Let's explore this topic in detail: " \o key],
                           [role |-> "user", content |-> AnswerText(ss', sid, key)] >>
              /\ ConversationLookup(ss') = ss'
              /\ TranscriptOf(ConversationLookup(ConversationLookup(ss')), sid, key)
                   = TranscriptOf(ss', sid, key)]_vars

\* a transcript synthesized from a loaded Answer
C7_Witness ==
  /\ ss.logged_in
  /\ last.op \in {"login", "select_session", "next_q_sidebar"}
  /\ HasAnswer(ss, CurrentSessionId(ss), CurrentQuestionText(ss))
  /\ CurrentConversation(ss) =
       << [role |-> "assistant",
           content |-> "Let's explore this topic in detail: " \o CurrentQuestionText(ss)],
          [role |-> "user",
           content |-> AnswerText(ss, CurrentSessionId(ss), CurrentQuestionText(ss))] >>

(***************************************************************************)
(* C8.                                                                     *)
(***************************************************************************)
\* C8: after a successful save of text T under (session s, topic key k),
\* discarding all in-memory transcripts and answers by logout, logging in
\* again as the same user and navigating to k yields a transcript whose only
\* user message has content T, for regular topic keys and for override keys.
C8_RoundTripAcrossRestart ==
  (last.op = "chat_input" /\ last.ok)
    => LET back == NavigateTo(Restart(ss, user_files, account_files),
                              user_files, last.sid, last.key)
       IN  /\ CurrentSessionId(back) = last.sid
           /\ CurrentQuestionText(back) = last.key
           /\ UserContents(CurrentConversation(back)) = << last.text >>

\* a successful save under an override key of the second session
C8_Witness ==
  /\ last.op = "chat_input"
  /\ last.ok
  /\ last.sid = SESSIONS[Len(SESSIONS)].id
  /\ last.key \in {FALLBACK_PROMPTS[j] : j \in 1..Len(FALLBACK_PROMPTS)}
  /\ ss.current_question_override = last.key
  /\ UserContents(CurrentConversation(
       NavigateTo(Restart(ss, user_files, account_files), user_files, last.sid, last.key)))
       = << last.text >>

(***************************************************************************)
(* C9.                                                                     *)
(***************************************************************************)
\* C9: save_response called while the user id is empty returns False and
\* changes nothing: the response map, the user's file, the account stats
\* and the streak counters are the same before and after, whatever a write
\* would have done.
C9_NoUserNoChange ==
  [][(last'.op = "save_response" /\ ss.user_id = "")
       => /\ ~last'.ok
          /\ ss'.responses = ss.responses
          /\ ss'.user_account = ss.user_account
          /\ ss'.streak_days = ss.streak_days
          /\ ss'.last_active = ss.last_active
          /\ ss'.total_writing_days = ss.total_writing_days
          /\ ss' = ss
          /\ user_files' = user_files
          /\ account_files' = account_files]_vars

\* a refused save, on a later day than the last activity
C9_Witness ==
  /\ last.op = "save_response"
  /\ ~last.ok
  /\ ss.user_id = ""
  /\ today > ss.last_active
  /\ \A sid \in DOMAIN ss.responses : ss.responses[sid].questions = EmptyMap
  /\ \A u \in DOMAIN user_files : user_files[u] = NoFile

(***************************************************************************)
(* C10.                                                                    *)
(***************************************************************************)
\* C10: after a save_response for (s, k) with a user, (s, k) holds one
\* Answer and its text is the text of this call; the Answer of every other
\* (session, key) pair is unchanged; and a call that returned True left the
\* same answers in the user's file.
C10_UpsertFrame ==
  [][(last'.op = "save_response" /\ ss.user_id # "")
       => /\ HasAnswer(ss', last'.sid, last'.key)
          /\ ss'.responses[last'.sid].questions[last'.key] = [answer |-> last'.text]
          /\ DOMAIN ss'.responses = DOMAIN ss.responses
          /\ \A sid \in DOMAIN ss.responses :
               /\ DOMAIN ss'.responses[sid].questions =
                    DOMAIN ss.responses[sid].questions
                      \cup (IF sid = last'.sid THEN {last'.key} ELSE {})
               /\ \A key \in DOMAIN ss.responses[sid].questions :
                    (sid # last'.sid \/ key # last'.key)
                      => ss'.responses[sid].questions[key] = ss.responses[sid].questions[key]
          /\ last'.ok
               => \A sid \in DOMAIN ss'.responses :
                    user_files'[ss.user_id].responses[ToString(sid)].questions
                      = ss'.responses[sid].questions]_vars

\* three saves that left two Answers: one replaced an earlier Answer under
\* its key, next to an Answer under another key
C10_Witness ==
  /\ last.op = "save_response"
  /\ last.ok
  /\ used.submits = 3
  /\ HasAnswer(ss, last.sid, last.key)
  /\ AnswerText(ss, last.sid, last.key) = last.text
  /\ Cardinality({p \in SessionIds \X TopicKeys(last.sid) : HasAnswer(ss, p[1], p[2])}) = 2

(***************************************************************************)
(* C11.                                                                    *)
(***************************************************************************)
\* C11: saving an edit of the user message at index i of a transcript
\* changes only the content of message i: the length of the transcript, the
\* roles of all messages and the contents of all other messages are
\* unchanged (and so is every other transcript); the Answer map of the
\* session has the same keys as before, with the edited topic key mapped to
\* the new text, and every other Answer is unchanged.
C11_EditFrame ==
  [][(last'.op = "save_edit")
       => LET sid == last'.sid
              key == last'.key
              i == ss.editing.i
              pre == TranscriptOf(ss, sid, key)
              post == TranscriptOf(ss', sid, key)
          IN  /\ ss.editing.active /\ ss.editing.sid = sid /\ ss.editing.key = key
              /\ Len(post) = Len(pre)
              /\ i + 1 \in 1..Len(pre)
              /\ \A j \in 1..Len(pre) :
                   /\ post[j].role = pre[j].role
                   /\ (j # i + 1) => post[j].content = pre[j].content
              /\ post[i + 1].content = last'.text
              /\ \A sid2 \in SessionIds : \A key2 \in AllKeys(ss, sid2) \cup AllKeys(ss', sid2) :
                   (sid2 # sid \/ key2 # key)
                     => /\ TranscriptOf(ss', sid2, key2) = TranscriptOf(ss, sid2, key2)
                        /\ HasAnswer(ss', sid2, key2) = HasAnswer(ss, sid2, key2)
                        /\ HasAnswer(ss, sid2, key2)
                             => AnswerText(ss', sid2, key2) = AnswerText(ss, sid2, key2)
              /\ DOMAIN ss'.responses[sid].questions =
                   DOMAIN ss.responses[sid].questions \cup {key}
              /\ ss'.responses[sid].questions[key] = [answer |-> last'.text]]_vars

\* the saved edit of the first of two user messages, with a new text
C11_Witness ==
  /\ last.op = "save_edit"
  /\ LET t == TranscriptOf(ss, last.sid, last.key)
     IN  /\ Len(t) = 5
         /\ t[2].role = "user" /\ t[2].content = last.text
         /\ t[4].role = "user" /\ t[4].content # last.text
  /\ AnswerText(ss, last.sid, last.key) = last.text
  /\ Cardinality(DOMAIN ss.responses[last.sid].questions) = 1

(***************************************************************************)
(* C12.                                                                    *)
(***************************************************************************)
\* C12: a saved edit is applied at an index that refers to a user message
\* of the active transcript: it never overwrites an assistant message and
\* never writes beyond the length of the transcript, also when the edit was
\* open across a prompt change, a Clear Session or a logout and login.
C12_EditHitsUserMessage ==
  [][(last'.op = "save_edit")
       => LET pre == CurrentConversation(ss)
              post == TranscriptOf(ss', CurrentSessionId(ss), CurrentQuestionText(ss))
              i == ss.editing.i
          IN  /\ ss.editing.active
              /\ ss.editing.sid = CurrentSessionId(ss)
              /\ ss.editing.key = CurrentQuestionText(ss)
              /\ i >= 0 /\ i < Len(pre)
              /\ pre[i + 1].role = "user"
              /\ Len(post) = Len(pre)
              /\ \A j \in 1..Len(pre) :
                   pre[j].role = "assistant" => post[j] = pre[j]]_vars

\* A saved edit that had been open across a logout and login: the transcript
\* is the one rebuilt from the loaded Answer, and the text the edit was
\* opened with (edit_text) is not the Answer that was loaded, which is still
\* in the file because the write of this save failed.
C12_Witness ==
  /\ last.op = "save_edit"
  /\ ~last.ok
  /\ LET t == TranscriptOf(ss, last.sid, last.key)
         file == user_files[ss.user_id]
     IN  /\ Len(t) = 2
         /\ t[1] = [role |-> "assistant",
                    content |-> "Let's explore this topic in detail: " \o last.key]
         /\ t[2] = [role |-> "user", content |-> last.text]
         /\ file.parses
         /\ ToString(last.sid) \in DOMAIN file.responses
         /\ last.key \in DOMAIN file.responses[ToString(last.sid)].questions
         /\ file.responses[ToString(last.sid)].questions[last.key].answer # ss.edit_text

(***************************************************************************)
(* C13.                                                                    *)
(***************************************************************************)
\* C13: when the completion call (or building its prompt) fails during a
\* chat submission, the fixed fallback assistant message is appended after
\* the user's message, the transcript is stored, and save_response is still
\* called with the user's text: the Answer is recorded, and it is in the
\* user's file when the write succeeded.
C13_LLMFailureStillSaves ==
  [][(last'.op = "chat_input" /\ ~last'.llm)
       => LET sid == last'.sid
              key == last'.key
              file == user_files'[ss.user_id]
          IN  /\ TranscriptOf(ss', sid, key) =
                   TranscriptOf(ss, sid, key) \o
                     << [role |-> "user", content |-> last'.text],
                        [role |-> "assistant",
                         content |-> "Thank you for sharing that. Your response has been saved."] >>
              /\ HasAnswer(ss', sid, key)
              /\ AnswerText(ss', sid, key) = last'.text
              /\ \E io \in IOOutcomes :
                   save_user_data(user_files, ss.user_id, ss'.responses, io) =
                     [files |-> user_files', ok |-> last'.ok]
              /\ last'.ok
                   => /\ file.parses
                      /\ file.responses[ToString(sid)].questions[key].answer = last'.text]_vars

\* a submission whose completion call failed and whose Answer is in the file
C13_Witness ==
  /\ last.op = "chat_input"
  /\ ~last.llm
  /\ last.ok
  /\ LET t == TranscriptOf(ss, last.sid, last.key)
     IN  /\ Len(t) >= 3
         /\ t[Len(t) - 1] = [role |-> "user", content |-> last.text]
         /\ t[Len(t)].content = "Thank you for sharing that. Your response has been saved."
  /\ user_files[ss.user_id].responses[ToString(last.sid)].questions[last.key].answer = last.text

(***************************************************************************)
(* C14.                                                                    *)
(***************************************************************************)
\* C14: when the write of the user's file fails during a chat submission,
\* save_response returns False (nothing is raised: the run goes on to the
\* rerun), the transcript in memory has the new user turn and the new
\* assistant turn, and the state stays usable: the user is logged in at a
\* valid topic with a stable transcript that offers the new turn for
\* editing, every session can be selected, and the next save whose write
\* succeeds returns True and puts every Answer of the memory in the file.
C14_WriteFailureKeepsState ==
  [][(last'.op = "chat_input" /\ ~last'.ok)
       => LET sid == last'.sid
              key == last'.key
              pre == TranscriptOf(ss, sid, key)
              post == TranscriptOf(ss', sid, key)
          IN  /\ user_files'[ss.user_id] \in {user_files[ss.user_id], CorruptFile}
              /\ Len(post) = Len(pre) + 2
              /\ SubSeq(post, 1, Len(pre)) = pre
              /\ post[Len(pre) + 1] = [role |-> "user", content |-> last'.text]
              /\ post[Len(pre) + 2].role = "assistant"
              /\ AnswerText(ss', sid, key) = last'.text
              /\ ss'.logged_in /\ ss'.user_id = ss.user_id
              /\ IndexInBounds(ss') /\ ~ScriptRaises(ss')
              /\ CurrentSessionId(ss') = sid /\ CurrentQuestionText(ss') = key
              /\ ConversationLookup(ss') = ss'
              /\ Len(pre) \in UserIndices(CurrentConversation(ss'))
              /\ \A i \in 0..(Len(SESSIONS) - 1) :
                   IndexInBounds(Rerun(select_session(ss', i), user_files'))
              /\ \A answer \in Texts :
                   LET r == save_response(ss', user_files', account_files', today',
                                          sid, key, answer, "ok")
                   IN  /\ r.ok
                       /\ r.user_files[ss.user_id].parses
                       /\ \A sid2 \in SessionIds :
                            r.user_files[ss.user_id].responses[ToString(sid2)].questions
                              = r.ss.responses[sid2].questions]_vars

\* a submission whose write failed and left the file unreadable, with the
\* new turns in the transcript
C14_Witness ==
  /\ last.op = "chat_input"
  /\ ~last.ok
  /\ user_files[ss.user_id] = CorruptFile
  /\ LET t == TranscriptOf(ss, last.sid, last.key)
     IN  /\ Len(t) >= 3
         /\ t[Len(t) - 1] = [role |-> "user", content |-> last.text]
         /\ t[Len(t)].role = "assistant"
  /\ AnswerText(ss, last.sid, last.key) = last.text

(***************************************************************************)
(* C15.                                                                    *)
(***************************************************************************)
\* C15: after every successful save_response for session s with an account
\* attached, the account stat total_sessions equals the number of answered
\* topic keys of session s, counting the Answer just recorded (also when it
\* is the first Answer under a new topic key).
C15_TotalSessionsCountsAnswer ==
  [][(last'.op = "save_response" /\ last'.ok /\ ss'.user_account.present)
       => /\ ss'.user_account.total_sessions =
               Cardinality(DOMAIN ss'.responses[last'.sid].questions)
          /\ account_files'[ss'.user_id].total_sessions =
               Cardinality(DOMAIN ss'.responses[last'.sid].questions)]_vars

(***************************************************************************)
(* The system prompt.                                                      *)
(***************************************************************************)
\* a system prompt was built in the last step
PromptBuilt == last.op = "get_system_prompt"

\* the lines of a text
Lines(text) == { text[n] : n \in 1..Len(text) }

\* the historical context block of the prompt that was built
BuiltHistoricalContext == historical_context(last.built_in, last.events)

\* every line that names an event: with or without the region tag and the
\* age suffix
LinesOfEvent(event) ==
  { "- " \o event.event \o " (" \o event.year_range \o ")" \o tag \o age :
      tag \in {"", " [UK]"},
      age \in {"", " (Age " \o ToString(event.approx_age) \o ")"} }

EventLinePositions(block, events) ==
  { n \in 1..Len(block) :
      \E i \in 1..Len(events) : block[n] \in LinesOfEvent(events[i]) }

\* the collaborator handed over applicable events only
AllApplicable(events) == \A i \in 1..Len(events) : events[i].approx_age >= 0

\* C17: the historical context block lists min(N, C) of the N applicable
\* events, with a cap C between 8 and 10: of more than 10 events it lists
\* between 8 and 10, of 8 or fewer it lists all, in ascending decade order.
C17_EventCap ==
  (PromptBuilt /\ last.events # <<>> /\ AllApplicable(last.events)) =>
    LET N == Len(last.events)
        block == BuiltHistoricalContext
        listed == EventLinePositions(block, last.events)
    IN  /\ N > 10 => Cardinality(listed) \in 8..10
        /\ N <= 8 => Cardinality(listed) = N
        /\ \A n \in listed :
             \E i \in 1..Min(N, Cardinality(listed)) :
               /\ block[n] \in LinesOfEvent(last.events[i])
               /\ Cardinality({ m \in listed : m < n }) = i - 1

\* the photo story block of the prompt that was built
BuiltPhotoStory == image_prompt_section(last.built_in, last.samples)

\* the photos on disk
AllPhotos ==
  UNION { { IMAGE_METADATA[sid][n] : n \in 1..Len(IMAGE_METADATA[sid]) } :
            sid \in DOMAIN IMAGE_METADATA }

\* the heading of the idx-th photo of the photo story block
PhotoHeading(idx, img) ==
  "**Photo " \o ToString(idx) \o ": " \o img.original_filename \o "**"

\* the positions of the block that are the heading of a photo
HeadingPositions(block, k) ==
  { n \in 1..Len(block) :
      \E idx \in 1..(k + 1), img \in AllPhotos : block[n] = PhotoHeading(idx, img) }

\* the lines under the heading at position n, up to the next empty line,
\* without the description line
QuestionLines(block, n, img) ==
  LET end == CHOOSE m \in (n + 1)..Len(block) :
               /\ block[m] = ""
               /\ \A x \in (n + 1)..(m - 1) : block[x] # ""
      under == SubSeq(block, n + 1, end - 1)
  IN  SelectSeq(under, LAMBDA line : line # "Description: " \o img.description)

\* the questions of the bank as they are listed
BankLines == { "* " \o photo_prompts[n] : n \in 1..Len(photo_prompts) }

\* C18: in photo story mode with k selected photos the photo story block
\* covers exactly the first min(k, 3) selected photos, each with at least 2
\* and at most 3 questions, all distinct and all from the question bank; when
\* the mode is off or no photo is selected the block is empty.
C18_PhotoStoryBlock ==
  PromptBuilt =>
    LET s == last.built_in
        selected == s.selected_images_for_prompt
        k == Len(selected)
        block == BuiltPhotoStory
    IN  IF s.image_prompt_mode /\ k > 0
          THEN /\ Cardinality(HeadingPositions(block, k)) = Min(k, 3)
               /\ \A j \in 1..Min(k, 3) :
                    \E n \in 1..Len(block) :
                      /\ block[n] = PhotoHeading(j, selected[j])
                      /\ Cardinality({ m \in HeadingPositions(block, k) : m < n }) = j - 1
                      /\ LET questions == QuestionLines(block, n, selected[j])
                         IN  /\ Len(questions) \in 2..3
                             /\ Lines(questions) \subseteq BankLines
                             /\ Cardinality(Lines(questions)) = Len(questions)
          ELSE block = EmptyText

\* a prompt was built in photo story mode for a selected photo that has a
\* description, and its block lists three questions under the photo
C18_Witness ==
  /\ PromptBuilt
  /\ last.built_in.image_prompt_mode
  /\ Len(last.built_in.selected_images_for_prompt) = 1
  /\ last.built_in.selected_images_for_prompt[1].description # ""
  /\ \E n \in 1..Len(BuiltPhotoStory) :
       /\ BuiltPhotoStory[n] = PhotoHeading(1, last.built_in.selected_images_for_prompt[1])
       /\ Len(QuestionLines(BuiltPhotoStory, n,
                            last.built_in.selected_images_for_prompt[1])) = 3
  /\ \E n \in 1..Len(last.prompt) : last.prompt[n] \in BankLines

\* the photo context block of the prompt that was built
BuiltImageContext == image_context(last.built_in, last.images)

\* the topic the user is asked about: the override when one is set, the
\* catalog question of the current indices otherwise
EffectiveTopic(s) ==
  IF s.current_question_override # NoOverride
    THEN s.current_question_override
    ELSE SESSIONS[s.current_session + 1].questions[s.current_question + 1]

\* the first position of a line in a text, 0 when the text has no such line
PositionOf(text, line) ==
  IF line \in Lines(text)
    THEN CHOOSE n \in 1..Len(text) :
           text[n] = line /\ \A m \in 1..(n - 1) : text[m] # line
    ELSE 0

\* the block is in the prompt, whole and in one piece, from position from
\* on: its lines from its at-th one up to its last newline
BlockAt(prompt, from, block, at) ==
  /\ from > 0
  /\ from + (Len(block) - 1 - at) <= Len(prompt)
  /\ SubSeq(prompt, from, from + (Len(block) - 1 - at)) = SubSeq(block, at, Len(block) - 1)

\* C19: in both modes the system prompt is composed in this order: role
\* declaration, session id and title, the effective topic verbatim,
\* historical context block, photo context block, photo story block, then
\* the instruction list of the mode; an empty block contributes nothing and
\* does not change the order of the others; the role declaration and the
\* instruction list are the ghostwriter ones iff ghostwriter_mode is true.
C19_PromptOrder ==
  PromptBuilt =>
    LET s == last.built_in
        prompt == last.prompt
        hist == BuiltHistoricalContext
        photos == BuiltImageContext
        story == BuiltPhotoStory
        instructions == IF s.ghostwriter_mode THEN GhostwriterInstructions
                                              ELSE CasualInstructions
        h == IF hist = EmptyText THEN 0 ELSE PositionOf(prompt, hist[2])
        p == IF photos = EmptyText THEN 0 ELSE PositionOf(prompt, photos[3])
        q == IF story = EmptyText THEN 0 ELSE PositionOf(prompt, story[3])
        t == PositionOf(prompt, instructions[3])
        present == { x \in {h, p, q} : x > 0 }
    IN  /\ prompt[1] = (IF s.ghostwriter_mode THEN GhostwriterRole ELSE CasualRole)
        /\ prompt[3] = "CURRENT SESSION: Session " \o ToString(SESSIONS[s.current_session + 1].id)
                         \o ": " \o SESSIONS[s.current_session + 1].title
        /\ prompt[4] = "CURRENT TOPIC: \"" \o EffectiveTopic(s) \o "\""
        /\ hist # EmptyText => BlockAt(prompt, h, hist, 2)
        /\ photos # EmptyText => BlockAt(prompt, p, photos, 3)
        /\ story # EmptyText => BlockAt(prompt, q, story, 3)
        /\ t > 0
        /\ SubSeq(prompt, t, Len(prompt)) = SubSeq(instructions, 3, Len(instructions))
        /\ \A x \in present : 4 < x /\ x < t
        /\ (h > 0 /\ p > 0) => h < p
        /\ (h > 0 /\ q > 0) => h < q
        /\ (p > 0 /\ q > 0) => p < q
        /\ Len(prompt) = 4 + Len(hist) + Len(photos) + Len(story) + Len(instructions) - 3
        /\ (IF s.ghostwriter_mode THEN CasualRole ELSE GhostwriterRole) \notin Lines(prompt)
        /\ (IF s.ghostwriter_mode THEN CasualInstructions[3] ELSE GhostwriterInstructions[3])
             \notin Lines(prompt)

\* a casual-mode prompt was built for an override topic with all three
\* context blocks present
C19_Witness ==
  /\ PromptBuilt
  /\ ~last.built_in.ghostwriter_mode
  /\ last.built_in.current_question_override # NoOverride
  /\ BuiltHistoricalContext # EmptyText
  /\ BuiltImageContext # EmptyText
  /\ BuiltPhotoStory # EmptyText
  /\ last.prompt[1] = CasualRole
  /\ last.prompt[Len(last.prompt)] = CasualInstructions[Len(CasualInstructions)]

\* C20: building the system prompt twice from identical inputs (session,
\* effective topic, mode flag, events, session images, photo story flag and
\* selected photos) gives identical output, and the builder makes no random
\* choice of its own, also in photo story mode with a selected photo.
C20_PromptDeterministic ==
  PromptBuilt =>
    /\ \A samples \in SampleRuns(last.built_in) :
         get_system_prompt(last.built_in, last.events, last.images, samples) = last.prompt
    /\ Cardinality(SampleRuns(last.built_in)) = 1

(***************************************************************************)
(* Word count, progress and statistics.                                    *)
(***************************************************************************)
\* one element for every word of every current Answer of a session
WordsOfSession(s, sid) ==
  { w \in (DOMAIN s.responses[sid].questions) \X (1..MaxWords) :
      w[2] <= WordCount(AnswerText(s, sid, w[1])) }

\* C21: the word count of a session is the sum of wordCount(text) over the
\* current Answer of each topic key (each key once, with its latest text),
\* progress percent is (count / target) * 100 and the remaining words are
\* max(0, target - count); "I remember the garden." as the only answer of a
\* session with word_target 800 gives count 4, 0.5% and 796 remaining.
C21_WordCountAndProgress ==
  \A sid \in SessionIds :
    sid \in DOMAIN ss.responses =>
      LET info == get_progress_info(ss, sid)
          questions == ss.responses[sid].questions
      IN  /\ info.current_count = Cardinality(WordsOfSession(ss, sid))
          /\ \A key \in DOMAIN questions : WordCount(questions[key].answer) <= MaxWords
          /\ info.target = ss.responses[sid].word_target
          /\ info.target > 0 =>
               info.progress_percent.num * info.target
                 = info.current_count * 100 * info.progress_percent.den
          /\ info.remaining_words
               = (IF info.target > info.current_count
                    THEN info.target - info.current_count ELSE 0)
          /\ ((\E key \in DOMAIN questions : DOMAIN questions = {key})
                /\ (\A key \in DOMAIN questions :
                      questions[key].answer = "I remember the garden.")
                /\ info.target = 800)
               => /\ info.current_count = 4
                  /\ info.progress_percent.num * 2 = info.progress_percent.den
                  /\ info.remaining_words = 796
          /\ (last.op \in {"chat_input", "save_edit"} /\ last.ok /\ last.sid = sid)
               => info.current_count
                    = WordCount(last.text)
                      + Cardinality({ w \in WordsOfSession(ss, sid) : w[1] # last.key })

\* the 4-word answer was just recorded as the only answer of the session
\* whose target is 800
C21_Witness ==
  /\ last.op = "chat_input"
  /\ last.ok
  /\ last.text = "I remember the garden."
  /\ last.sid \in DOMAIN ss.responses
  /\ ss.responses[last.sid].word_target = 800
  /\ DOMAIN ss.responses[last.sid].questions = {last.key}
  /\ get_progress_info(ss, last.sid).current_count = 4

(***************************************************************************)
(* Several users of one browser session.                                   *)
(***************************************************************************)
\* the session state of a user who logs in to a browser session nobody used
FreshLogin(u) ==
  Rerun(login_success(Rerun(InitialSessionState, user_files), account_files[u]),
        user_files)

\* C22: no mutable state is shared across users: after user A logs out and a
\* different user B logs in within the same browser session, B's transcripts,
\* answers, pending edit and edit text, topic override, quick notes, selected
\* photos and streak counters are what they would be had A never used the
\* application.
C22_NoStateAcrossUsers ==
  (last.op = "login" /\ last.seen # {} /\ last.text \notin last.seen) =>
    LET fresh == FreshLogin(last.text)
    IN  /\ ss.session_conversations = fresh.session_conversations
        /\ ss.responses = fresh.responses
        /\ ss.editing = fresh.editing
        /\ ss.edit_text = fresh.edit_text
        /\ ss.current_question_override = fresh.current_question_override
        /\ ss.quick_jots = fresh.quick_jots
        /\ ss.selected_images_for_prompt = fresh.selected_images_for_prompt
        /\ ss.streak_days = fresh.streak_days
        /\ ss.last_active = fresh.last_active
        /\ ss.total_writing_days = fresh.total_writing_days

(***************************************************************************)
(* The chat submission.                                                    *)
(***************************************************************************)
\* C23: each accepted chat submission, whether the completion call succeeds
\* or fails, appends exactly two messages to the transcript of the active
\* (session, effective topic key), the user message and then one assistant
\* message, leaves every other transcript unchanged, sends the prior history
\* followed by the new user message exactly once, and records the user's
\* text as the Answer under that same session and key, with the assistant
\* message already in the transcript.
C23_SubmissionAppendsTwo ==
  [][(last'.op = "chat_input")
       => LET sid == last'.sid
              key == last'.key
              pre == TranscriptOf(ss, sid, key)
              post == TranscriptOf(ss', sid, key)
          IN  /\ sid = SESSIONS[ss.current_session + 1].id
              /\ key = (IF ss.current_question_override # NoOverride
                          THEN ss.current_question_override
                          ELSE SESSIONS[ss.current_session + 1].questions[ss.current_question + 1])
              /\ Len(post) = Len(pre) + 2
              /\ SubSeq(post, 1, Len(pre)) = pre
              /\ post[Len(pre) + 1] = Msg("user", last'.text)
              /\ post[Len(pre) + 2].role = "assistant"
              /\ post[Len(pre) + 2].content # ""
              /\ \A sid2 \in SessionIds : \A key2 \in AllKeys(ss, sid2) \cup AllKeys(ss', sid2) :
                   (sid2 # sid \/ key2 # key)
                     => TranscriptOf(ss', sid2, key2) = TranscriptOf(ss, sid2, key2)
              /\ Len(last'.sent) = 1
              /\ last'.sent[1] = Append(pre, Msg("user", last'.text))
              /\ HasAnswer(ss', sid, key)
              /\ AnswerText(ss', sid, key) = last'.text]_vars

\* a submission whose completion call failed, on a transcript that already
\* held an earlier exchange
C23_Witness ==
  /\ last.op = "chat_input"
  /\ ~last.llm
  /\ Len(TranscriptOf(ss, last.sid, last.key)) >= 5
  /\ Len(last.sent[1]) >= 4
  /\ AnswerText(ss, last.sid, last.key) = last.text

(***************************************************************************)
(* The writing streak.                                                     *)
(***************************************************************************)
\* C24: update_streak depends only on the number of days between today and
\* last_active: a save on the same day changes neither streak_days nor
\* total_writing_days; a save one day later adds 1 to streak_days; a save
\* after a gap of more than one day resets streak_days to 1; every save on a
\* new day adds 1 to total_writing_days and sets last_active to today.  So
\* 1 <= streak_days <= total_writing_days in every reachable state.
C24_StreakByDayDifference ==
  [][/\ ss.streak_days >= 1 /\ ss.streak_days <= ss.total_writing_days
     /\ ss'.streak_days >= 1 /\ ss'.streak_days <= ss'.total_writing_days
     /\ (last'.op = "save_response" /\ ss.user_id # "")
          => LET days_diff == today - ss.last_active
             IN  /\ days_diff = 0 =>
                      /\ ss'.streak_days = ss.streak_days
                      /\ ss'.total_writing_days = ss.total_writing_days
                      /\ ss'.last_active = ss.last_active
                 /\ days_diff = 1 => ss'.streak_days = ss.streak_days + 1
                 /\ days_diff > 1 => ss'.streak_days = 1
                 /\ days_diff # 0 =>
                      /\ ss'.total_writing_days = ss.total_writing_days + 1
                      /\ ss'.last_active = today]_vars

\* a save after a gap of two days that ended a streak of two days
C24_Witness ==
  /\ last.op = "save_response"
  /\ ss.user_id # ""
  /\ today = 3
  /\ ss.last_active = 3
  /\ ss.streak_days = 1
  /\ ss.total_writing_days = 3

(***************************************************************************)
(* The shape of the transcripts.                                           *)
(***************************************************************************)
\* C25: every transcript starts with an assistant message and its roles
\* alternate assistant, user, assistant, ...: no transcript holds two
\* consecutive user messages or two consecutive assistant messages, also
\* when it was rebuilt from a saved Answer and then extended by a chat
\* submission.
C25_RolesAlternate ==
  \A sid \in SessionIds : \A key \in AllKeys(ss, sid) :
    LET conversation == TranscriptOf(ss, sid, key)
    IN  \A n \in 1..Len(conversation) :
          conversation[n].role = (IF n % 2 = 1 THEN "assistant" ELSE "user")

\* C26: whenever no Answer exists for a (session, topic key) of the logged-in
\* user, the transcript of that key, if there is one, holds no user message
\* (at most the opening assistant message); also after Clear Session and
\* Clear All.
C26_NoAnswerNoUserMessage ==
  ss.logged_in =>
    \A sid \in SessionIds : \A key \in AllKeys(ss, sid) :
      ~HasAnswer(ss, sid, key) =>
        \A n \in 1..Len(TranscriptOf(ss, sid, key)) :
          TranscriptOf(ss, sid, key)[n].role # "user"

\* the value shown as Total Words
RECURSIVE TotalWordsShown(_, _)
TotalWordsShown(s, sids) ==
  IF sids = {}
    THEN 0
    ELSE LET sid == CHOOSE x \in sids : TRUE
         IN  calculate_author_word_count(s, sid) + TotalWordsShown(s, sids \ {sid})

\* C27: with an account attached, after any sequence of submissions, edits
\* and repeated answers to the same topic key, the account stat total_words
\* equals the sum of the word counts of the currently stored Answers (the
\* value shown as Total Words).
C27_TotalWordsMatchesAnswers ==
  (ss.logged_in /\ ss.user_account.present) =>
    ss.user_account.total_words = TotalWordsShown(ss, SessionIds)

(***************************************************************************)
(* The word target.                                                        *)
(***************************************************************************)
\* C28: a word_target changed by the user for a session and saved
\* successfully survives a reload: after logout (or restart) and login as
\* the same user the in-memory word_target of that session is the saved
\* value, not the catalog default.
C28_WordTargetSurvivesReload ==
  (last.op = "save_word_target_bottom" /\ last.ok) =>
    LET reloaded == Restart(ss, user_files, account_files)
    IN  /\ ToString(ss.responses[last.sid].word_target) = last.text
        /\ reloaded.responses[last.sid].word_target = ss.responses[last.sid].word_target

(***************************************************************************)
(* The selected photos.                                                    *)
(***************************************************************************)
\* C29: whenever photo story mode is active, every photo of the selection
\* used for the photo story block belongs to the current session and is
\* still in that session's image list: changing session or deleting a photo
\* never leaves a photo of another session, or a deleted photo, in the
\* prompt.
C29_SelectedPhotosOfSession ==
  (ss.logged_in /\ ss.image_prompt_mode) =>
    \A n \in 1..Len(StoryPhotos(ss)) :
      /\ StoryPhotos(ss)[n].session_id = CurrentSessionId(ss)
      /\ \E m \in 1..Len(get_session_images(ss, CurrentSessionId(ss))) :
           get_session_images(ss, CurrentSessionId(ss))[m] = StoryPhotos(ss)[n]

\* C30: whenever the session is logged in (after any sequence of login,
\* remembered login through the URL parameter, signup and logout) user_id is
\* not empty; so, where the main flow runs, recording an answer for the
\* current topic with a working disk does not take the no-user path of
\* save_response and succeeds.
C30_LoggedInHasUser ==
  /\ ss.logged_in => ss.user_id # ""
  /\ MainFlowRuns(ss) =>
       \A answer \in Texts :
         save_response(ss, user_files, account_files, today, CurrentSessionId(ss),
                       CurrentQuestionText(ss), answer, "ok").ok

\* an account made by signup is in the interview and an answer of its chat
\* was recorded
C30_Witness ==
  /\ MainFlowRuns(ss)
  /\ ss.user_id \in NewUserIds
  /\ last.op = "chat_input"
  /\ last.ok

=============================================================================
